---------------------------- MODULE Spec2Model ----------------------------
(***************************************************************************)
(* A model of pyNastran's AFLR UGRID converter                             *)
(* (pyNastran/converters/ugrid/ugrid_reader.py):                           *)
(*   - determine_dytpe_nfloat_endian_from_ugrid_filename (SpecName),       *)
(*   - UGRID.read_ugrid / UGRID.write_ugrid on byte sequences              *)
(*     (SpecRoundTrip),                                                    *)
(*   - UGRID._write_faces, the face extraction (SpecFaces).                *)
(* Characters are one-character strings, a file is a sequence of bytes     *)
(* (0..255), a numpy array is a sequence of rows.                          *)
(***************************************************************************)
EXTENDS Integers, Sequences, FiniteSets, TLC

VARIABLES
    \* determine_dytpe_nfloat_endian_from_ugrid_filename
    ugrid_filename,   \* the argument, a sequence of characters
    name_pc,          \* "call" | "returned" | "raised"
    descriptor,       \* the value returned, or NoValue
    name_exc,         \* the exception raised, or "none"
    \* the UGRID object: the volume-element arrays (rows of 1-based node ids)
    tets, penta5s, penta6s, hexas,
    \* the UGRID object: the byte counter and the other arrays
    n,                \* self.n, the bytes read_ugrid has asked for so far
    nodes,            \* rows of 3 floats, each float its bytes, high byte first
    tris, quads,      \* rows of 3 and of 4 1-based node ids
    pids,             \* one patch id per surface element
    \* the files read_ugrid and write_ugrid work on, and the calls made
    file_tag,         \* the format tag of the name of the file x.<tag>.ugrid
    out_tag,          \* the format tag of the name the last write_ugrid was given
    ugrid_file,       \* the bytes of the file x.<tag>.ugrid
    out_files,        \* the files out.<tag>.ugrid write_ugrid has made: tag -> bytes
    calls,            \* the number of read_ugrid / write_ugrid calls made
    last_call,        \* the last call: its operation, its file, what it raised
    read_log,         \* the reads of the last read_ugrid: block, offset, bytes
    write_log,        \* the writes of the last write_ugrid, likewise
    mesh_from,        \* the file the arrays of the object were decoded from
    wrote,            \* the arrays the last write_ugrid packed, and their origin
    \* calls on a populated object
    assigned,         \* the arrays as they were when the object was populated
    returned,         \* what the last check_hanging_nodes returned and printed
    checked,          \* whether a check_hanging_nodes has returned normally
    tag_data,         \* the tag lookup: patch id -> name
    skin,             \* the outcome of the last skin_solids call
    isort,            \* self.isort, <<>> for None
    bdf_file,         \* the shell cards of the last write_bdf: eid, pid, nodes
    boundary_file,    \* the patches of the last _write_boundary
    \* UGRID._write_faces: its position, its locals and what it raised
    faces_pc,         \* "call" | "tets" | "hexas" | "penta5s" | "penta6s" |
                      \* "classify" | "done" | "raised"
    faces_exc,        \* the exception raised, or "none"
    el,               \* 0-based index of the next row of the running loop
    it, iq, eid,      \* fill cursors of tri_faces / quad_faces, element id
    tri_faces, quad_faces,                 \* the dense face arrays
    tri_face_to_eids, quad_face_to_eids,   \* canonical key -> element ids
    it_start, iq_start, min_eids,          \* the per-kind dictionaries
    pending,          \* keys of tri_face_to_eids the last loop has yet to visit
    owner, neighbor, face_new,             \* locals of the last loop
    rows,             \* locals i1, it1, it2, iq1, iq2 of the last loop and n1, which
                      \* the element loops bind too
    classified        \* key -> owner, neighbor, face_new when its pass of the
                      \* last loop ended, and the branch the pass took

nameVars == <<ugrid_filename, name_pc, descriptor, name_exc>>
volVars == <<tets, penta5s, penta6s, hexas>>
meshVars == <<n, nodes, tris, quads, pids>>
fileVars == <<file_tag, out_tag, ugrid_file, out_files>>
callVars == <<calls, last_call, read_log, write_log, mesh_from, wrote>>
opsVars == <<assigned, returned, checked, tag_data, skin, isort, bdf_file, boundary_file>>
codecVars == <<meshVars, fileVars, callVars, opsVars>>
enumVars == <<el, it, iq, eid, tri_faces, quad_faces, tri_face_to_eids,
              quad_face_to_eids, it_start, iq_start, min_eids>>
classVars == <<pending, owner, neighbor, face_new, rows, classified>>
facesVars == <<faces_pc, faces_exc, enumVars, classVars>>

vars == <<nameVars, volVars, codecVars, facesVars>>

NoValue == "none"

\* whether the file out.<tag>.ugrid of the name the last write_ugrid was given
\* exists, and its bytes: a file is there once a write_ugrid has opened it
out_exists == out_tag \in DOMAIN out_files
f_ugrid == IF out_exists THEN out_files[out_tag] ELSE <<>>

-----------------------------------------------------------------------------
(* Sequences                                                               *)

RECURSIVE SeqsUpTo(_, _)
\* every sequence over S of length 0..len
SeqsUpTo(S, len) ==
    IF len = 0 THEN {<<>>}
    ELSE LET shorter == SeqsUpTo(S, len - 1)
         IN  shorter \cup {Append(s, x) : s \in {t \in shorter : Len(t) = len - 1}, x \in S}

Range(s) == {s[i] : i \in DOMAIN s}

\* the sequences of SeqsUpTo(S, len) in which nothing occurs twice
DistinctSeqsUpTo(S, len) ==
    {s \in SeqsUpTo(S, len) : \A i, j \in DOMAIN s : s[i] = s[j] => i = j}

\* Python's `x in s` for a one-character x
HasChar(s, c) == \E i \in DOMAIN s : s[i] = c

\* Python's `'lb' in s`: two adjacent characters
HasPair(s, c1, c2) == \E i \in 1..(Len(s) - 1) : s[i] = c1 /\ s[i + 1] = c2

-----------------------------------------------------------------------------
(* Filenames                                                               *)

\* os.path.basename: what follows the last "/"
basename(p) ==
    LET slashes == {i \in DOMAIN p : p[i] = "/"}
    IN  IF slashes = {} THEN p
        ELSE LET last == CHOOSE i \in slashes : \A j \in slashes : j <= i
             IN  SubSeq(p, last + 1, Len(p))

RECURSIVE split_dot(_)
\* str.split('.'): the parts between the dots, empty parts kept
split_dot(s) ==
    LET dots == {i \in DOMAIN s : s[i] = "."}
    IN  IF dots = {} THEN <<s>>
        ELSE LET first == CHOOSE i \in dots : \A j \in dots : i <= j
             IN  <<SubSeq(s, 1, first - 1)>> \o split_dot(SubSeq(s, first + 1, Len(s)))

ext_ugrid == <<"u", "g", "r", "i", "d">>

determine_float_mutant_digit_order(file_format) ==
    IF HasChar(file_format, "4")
    THEN [exc |-> "none", ndarray_float |-> "float32", float_fmt |-> "f", nfloat |-> 4]
    ELSE IF HasChar(file_format, "8")
    THEN [exc |-> "none", ndarray_float |-> "float64", float_fmt |-> "d", nfloat |-> 8]
    ELSE [exc |-> "NotImplementedError", ndarray_float |-> NoValue,
          float_fmt |-> NoValue, nfloat |-> 0]

\* lines 994-1004: the precision digit, '8' looked for before '4'
determine_float(file_format) ==
    IF HasChar(file_format, "8")
    THEN [exc |-> "none", ndarray_float |-> "float64", float_fmt |-> "d", nfloat |-> 8]
    ELSE IF HasChar(file_format, "4")
    THEN [exc |-> "none", ndarray_float |-> "float32", float_fmt |-> "f", nfloat |-> 4]
    ELSE [exc |-> "NotImplementedError", ndarray_float |-> NoValue,
          float_fmt |-> NoValue, nfloat |-> 0]

determine_endian_mutant_b_first(file_format) ==
    IF HasChar(file_format, "b") THEN [exc |-> "none", endian |-> ">"]
    ELSE IF HasPair(file_format, "l", "b") THEN [exc |-> "none", endian |-> "<"]
    ELSE [exc |-> "NotImplementedError", endian |-> NoValue]

\* lines 1006-1016: the endianness marker, 'lb' looked for before 'b'
determine_endian(file_format) ==
    IF HasPair(file_format, "l", "b") THEN [exc |-> "none", endian |-> "<"]
    ELSE IF HasChar(file_format, "b") THEN [exc |-> "none", endian |-> ">"]
    ELSE [exc |-> "NotImplementedError", endian |-> NoValue]

Raise(kind) == [exc |-> kind, value |-> NoValue]

\* lines 989-1017.  The three-name unpacking of the split raises ValueError
\* unless there are exactly three parts; the assert raises AssertionError.
determine_dytpe_nfloat_endian_from_ugrid_filename(filename) ==
    LET parts == split_dot(basename(filename))
    IN  IF Len(parts) # 3 THEN Raise("ValueError")
        ELSE LET file_format == parts[2]
                 ext == parts[3]
                 f == determine_float(file_format)
                 e == determine_endian(file_format)
             IN  IF ext # ext_ugrid THEN Raise("AssertionError")
                 ELSE IF f.exc # "none" THEN Raise(f.exc)
                 ELSE IF e.exc # "none" THEN Raise(e.exc)
                 ELSE [exc |-> "none",
                       value |-> [ndarray_float |-> f.ndarray_float,
                                  float_fmt |-> f.float_fmt,
                                  nfloat |-> f.nfloat,
                                  endian |-> e.endian]]

-----------------------------------------------------------------------------
(* numpy and dict helpers                                                  *)

\* a dict with no key
EmptyDict == [k \in {} |-> 0]

\* d[k] = v
DictSet(d, k, v) == [x \in (DOMAIN d) \cup {k} |-> IF x = k THEN v ELSE d[x]]

\* defaultdict(list): d[k].append(v)
DictAppend(d, k, v) ==
    [x \in (DOMAIN d) \cup {k} |->
        IF x = k THEN (IF k \in DOMAIN d THEN Append(d[k], v) ELSE <<v>>) ELSE d[x]]

RECURSIVE DictAppendAll(_, _, _)
\* d[k].append(v) for the keys of ks, first to last
DictAppendAll(d, ks, v) ==
    IF ks = <<>> THEN d
    ELSE DictAppendAll(DictAppend(d, Head(ks), v), Tail(ks), v)

RECURSIVE Insert(_, _)
\* x put into the ascending sequence s
Insert(x, s) ==
    IF s = <<>> THEN <<x>>
    ELSE IF x <= Head(s) THEN <<x>> \o s
    ELSE <<Head(s)>> \o Insert(x, Tail(s))

RECURSIVE sort(_)
\* list.sort() / ndarray.sort(axis=1) of one row: ascending
sort(s) == IF s = <<>> THEN <<>> ELSE Insert(Head(s), sort(Tail(s)))

RECURSIVE SortedKeys(_)
\* sorted(d.keys()) given as the set of keys
SortedKeys(S) ==
    IF S = {} THEN <<>>
    ELSE LET m == CHOOSE x \in S : \A y \in S : x <= y
         IN  <<m>> \o SortedKeys(S \ {m})

\* numpy.searchsorted(a, v) (side='left'): how many entries of a are < v
searchsorted(a, v) == Cardinality({i \in DOMAIN a : a[i] < v})

\* zeros((len, width)): len rows of zeros
zeros(len, width) == [i \in 1..len |-> [j \in 1..width |-> 0]]

\* array - 1: the 0-based copy of a connectivity array
minus_one(a) == [i \in DOMAIN a |-> [j \in DOMAIN a[i] |-> a[i][j] - 1]]

RECURSIVE SetRows(_, _, _)
\* a[i0, :] = fs[1]; a[i0+1, :] = fs[2]; ... with 0-based row index i0; the
\* first row index past the end of a raises IndexError, and nothing more is set
SetRows(a, i0, fs) ==
    IF fs = <<>> \/ i0 >= Len(a) THEN a
    ELSE SetRows([a EXCEPT ![i0 + 1] = Head(fs)], i0 + 1, Tail(fs))

\* a[i1:i2, :] with Python's clamping of the slice
Slice(a, i1, i2) ==
    LET hi == IF i2 < Len(a) THEN i2 ELSE Len(a)
    IN  IF i1 >= hi THEN <<>> ELSE SubSeq(a, i1 + 1, hi)

\* deepcopy followed by sort(axis=1): every row sorted
sort_rows(a) == [i \in DOMAIN a |-> sort(a[i])]

-----------------------------------------------------------------------------
(* UGRID._write_faces: the face templates (lines 740-867)                  *)

tet_faces_mutant_repeated_face(e) ==
    << <<e[3], e[2], e[1]>>, <<e[1], e[2], e[4]>>,
       <<e[4], e[3], e[1]>>, <<e[2], e[3], e[1]>> >>

\* lines 741-745
tet_faces(e) ==
    << <<e[3], e[2], e[1]>>, <<e[1], e[2], e[4]>>,
       <<e[4], e[3], e[1]>>, <<e[2], e[3], e[4]>> >>

\* lines 768-775
hexa_faces(e) ==
    << <<e[1], e[2], e[3], e[4]>>, <<e[2], e[6], e[7], e[3]>>,
       <<e[6], e[5], e[8], e[7]>>, <<e[5], e[1], e[4], e[8]>>,
       <<e[4], e[3], e[7], e[8]>>, <<e[5], e[6], e[2], e[1]>> >>

\* lines 805-810: four triangles
penta5_tri_faces(e) ==
    << <<e[2], e[3], e[5]>>, <<e[1], e[2], e[5]>>,
       <<e[4], e[1], e[5]>>, <<e[5], e[3], e[4]>> >>

penta5_quad_faces_mutant_no_base(e) == <<>>

\* line 811: the quadrilateral base
penta5_quad_faces(e) == << <<e[4], e[3], e[2], e[1]>> >>

\* lines 840-843: the two caps
penta6_tri_faces(e) == << <<e[1], e[2], e[3]>>, <<e[5], e[4], e[6]>> >>

\* lines 844-846: the three sides
penta6_quad_faces(e) ==
    << <<e[2], e[5], e[6], e[3]>>, <<e[4], e[1], e[3], e[6]>>,
       <<e[4], e[5], e[2], e[1]>> >>

\* faceN.sort(); tuple(faceN) for every face of the list
keys_of(fs) == [i \in DOMAIN fs |-> sort(fs[i])]

\* the value a local has before its first assignment
Unbound == -2

\* the neighbor of a boundary face (line 911)
NoNeighbor == -1

-----------------------------------------------------------------------------
(* UGRID._write_faces: the actions (lines 705-986, Python 2 semantics).    *)
(* The text written to the faces file is the constant '\n\n(\n)\n' and is  *)
(* not modelled.                                                           *)

\* line 713
ntri_faces_of(ntets, npenta5s, npenta6s, nhexas) ==
    ntets * 4 + npenta5s * 4 + npenta6s * 2

\* a count that leaves out the base of the pyramids
nquad_faces_of_mutant_no_pyramids(ntets, npenta5s, npenta6s, nhexas) ==
    nhexas * 6 + npenta6s * 3

\* line 712
nquad_faces_of(ntets, npenta5s, npenta6s, nhexas) ==
    nhexas * 6 + npenta5s + npenta6s * 3

FacesRaise(kind) ==
    /\ faces_pc' = "raised"
    /\ faces_exc' = kind

\* lines 707-739: the sizes, the assert, the allocation, the first entries
\* of the dictionaries
FacesBegin ==
    /\ faces_pc = "call"
    /\ LET ntri_faces == ntri_faces_of(Len(tets), Len(penta5s), Len(penta6s), Len(hexas))
           nquad_faces == nquad_faces_of(Len(tets), Len(penta5s), Len(penta6s), Len(hexas))
       IN  IF ntri_faces + nquad_faces > 0
           THEN /\ tri_faces' = zeros(ntri_faces, 3)
                /\ quad_faces' = zeros(nquad_faces, 4)
                /\ it' = 0
                /\ iq' = 0
                /\ eid' = 1
                /\ it_start' = DictSet(EmptyDict, 1, 0)
                /\ iq_start' = DictSet(EmptyDict, 1, 0)
                /\ min_eids' = DictSet(EmptyDict, 1, "tets")
                /\ faces_pc' = "tets"
                /\ UNCHANGED <<faces_exc, el, tri_face_to_eids, quad_face_to_eids>>
           ELSE /\ FacesRaise("AssertionError")
                /\ UNCHANGED enumVars
    /\ UNCHANGED <<nameVars, volVars, codecVars, classVars>>

\* One pass of an enumeration loop: the row e of the element is unpacked
\* into the locals n1, n2, ... (lines 741, 768, 805, 840; n1 is the local
\* the last loop assigns again), the rows of the element's faces are stored
\* at the cursors, the element id is appended under every sorted key, the
\* cursors and the element id advance.
Fill(e, tfs, qfs) ==
    /\ rows' = [rows EXCEPT !.n1 = e[1]]
    /\ tri_faces' = SetRows(tri_faces, it, tfs)
    /\ IF it + Len(tfs) > Len(tri_faces)
       THEN /\ FacesRaise("IndexError")
            /\ UNCHANGED <<quad_faces, tri_face_to_eids, quad_face_to_eids, it, iq, eid, el>>
       ELSE /\ quad_faces' = SetRows(quad_faces, iq, qfs)
            /\ IF iq + Len(qfs) > Len(quad_faces)
               THEN /\ FacesRaise("IndexError")
                    /\ UNCHANGED <<tri_face_to_eids, quad_face_to_eids, it, iq, eid, el>>
               ELSE /\ tri_face_to_eids' = DictAppendAll(tri_face_to_eids, keys_of(tfs), eid)
                    /\ quad_face_to_eids' = DictAppendAll(quad_face_to_eids, keys_of(qfs), eid)
                    /\ it' = it + Len(tfs)
                    /\ iq' = iq + Len(qfs)
                    /\ eid' = eid + 1
                    /\ el' = el + 1
                    /\ UNCHANGED <<faces_pc, faces_exc>>
    /\ UNCHANGED <<it_start, iq_start, min_eids>>
    /\ UNCHANGED <<pending, owner, neighbor, face_new, classified>>
    /\ UNCHANGED <<nameVars, volVars, codecVars>>

\* What follows a loop: the start cursors and the first element id of the
\* next kind are recorded (lines 763-765, 800-802, 835-837).
NextKind(k, name) ==
    /\ it_start' = DictSet(it_start, k, it)
    /\ iq_start' = DictSet(iq_start, k, iq)
    /\ min_eids' = DictSet(min_eids, eid, name)
    /\ faces_pc' = name
    /\ el' = 0
    /\ UNCHANGED <<faces_exc, it, iq, eid, tri_faces, quad_faces,
                   tri_face_to_eids, quad_face_to_eids>>
    /\ UNCHANGED <<nameVars, volVars, codecVars, classVars>>

\* lines 740-761: one tetrahedron
FacesTet ==
    /\ faces_pc = "tets"
    /\ el < Len(tets)
    /\ LET e == minus_one(tets)[el + 1]
       IN  Fill(e, tet_faces(e), <<>>)

\* lines 763-765: the tetrahedra are done, the hexahedra come next
FacesTetsEnd ==
    /\ faces_pc = "tets"
    /\ el = Len(tets)
    /\ NextKind(2, "hexas")

\* lines 767-798: one hexahedron
FacesHexa ==
    /\ faces_pc = "hexas"
    /\ el < Len(hexas)
    /\ LET e == minus_one(hexas)[el + 1]
       IN  Fill(e, <<>>, hexa_faces(e))

\* lines 800-802: the pyramids come next
FacesHexasEnd ==
    /\ faces_pc = "hexas"
    /\ el = Len(hexas)
    /\ NextKind(3, "penta5s")

\* lines 804-833: one pyramid
FacesPenta5 ==
    /\ faces_pc = "penta5s"
    /\ el < Len(penta5s)
    /\ LET e == minus_one(penta5s)[el + 1]
       IN  Fill(e, penta5_tri_faces(e), penta5_quad_faces(e))

\* lines 835-837: the prisms come last
FacesPenta5sEnd ==
    /\ faces_pc = "penta5s"
    /\ el = Len(penta5s)
    /\ NextKind(4, "penta6s")

\* lines 839-867: one prism
FacesPenta6 ==
    /\ faces_pc = "penta6s"
    /\ el < Len(penta6s)
    /\ LET e == minus_one(penta6s)[el + 1]
       IN  Fill(e, penta6_tri_faces(e), penta6_quad_faces(e))

\* lines 869-903: the sorted copies and eid_keys are functions of the state
\* (tri_faces_sort, eid_keys below); the loop over the triangular keys starts
FacesPenta6sEnd ==
    /\ faces_pc = "penta6s"
    /\ el = Len(penta6s)
    /\ faces_pc' = "classify"
    /\ pending' = DOMAIN tri_face_to_eids
    /\ UNCHANGED <<faces_exc, enumVars, owner, neighbor, face_new, rows, classified>>
    /\ UNCHANGED <<nameVars, volVars, codecVars>>

\* lines 870, 876
tri_faces_sort == sort_rows(tri_faces)

\* lines 894-895 (Python 2: keys() is a list)
eid_keys == SortedKeys(DOMAIN min_eids)

\* lines 897-902
type_mapper == [i \in 1..4 |-> <<"tets", "hexas", "penta5s", "penta6s">>[i]]

\* numpy.allclose(a, b) with its default tolerances, on two integer rows:
\* |a - b| <= 1e-8 + 1e-5 * |b| for every entry, which for integers is
\* |a - b| <= |b| div 10^5 -- equality only where |b| is below 10^5
allclose(a, b) ==
    \A i \in DOMAIN a :
        LET d == a[i] - b[i]
            absb == IF b[i] < 0 THEN -b[i] ELSE b[i]
        IN  (IF d < 0 THEN -d ELSE d) <= absb \div 100000

\* lines 933-942: the first of the rows 0..3 of faces1_sort that allclose
\* finds close to face.  A row is looked at only when those before it are
\* not close: looking at a row the slice does not have raises IndexError;
\* four rows without a match raise RuntimeError.
find_row(face, faces1_sort) ==
    LET hits == {r \in 0..3 : r < Len(faces1_sort) /\ allclose(face, faces1_sort[r + 1])}
    IN  IF hits # {}
        THEN [exc |-> "none", n1 |-> CHOOSE r \in hits : \A q \in hits : r <= q]
        ELSE IF Len(faces1_sort) < 4 THEN [exc |-> "IndexError", n1 |-> Unbound]
        ELSE [exc |-> "RuntimeError", n1 |-> Unbound]

\* lines 944-949: which of e1, e2 is called the owner
pick_owner(face, unsorted_row, e1, e2) ==
    IF allclose(face, unsorted_row) THEN <<e1, e2>> ELSE <<e2, e1>>

\* lines 904-968: one pass of `for face, eids in iteritems(tri_face_to_eids)`.
\* The order in which a Python 2 dict yields its keys is not specified: any
\* key not yet visited may come next.
FacesClassify ==
    /\ faces_pc = "classify"
    /\ \E face \in pending :
        LET eids == tri_face_to_eids[face]
            visited(branch) ==
                /\ pending' = pending \ {face}
                /\ classified' = DictSet(classified, face,
                                         [owner |-> owner', neighbor |-> neighbor',
                                          face_new |-> face_new', branch |-> branch])
                /\ UNCHANGED <<faces_pc, faces_exc>>
        IN  IF Len(eids) = 1
            THEN \* lines 905-912
                 /\ eid' = eids[1]
                 /\ owner' = eids[1]
                 /\ neighbor' = NoNeighbor
                 /\ UNCHANGED <<face_new, rows>>
                 /\ visited("boundary")
            ELSE IF Len(eids) # 2
            THEN \* line 915: e1, e2 = eids cannot unpack three or more ids
                 /\ FacesRaise("ValueError")
                 /\ UNCHANGED <<eid, classVars>>
            ELSE LET e1 == eids[1]
                     e2 == eids[2]
                     i1 == searchsorted(eid_keys, e1)
                 IN  /\ UNCHANGED eid
                     /\ CASE i1 = 1 ->
                              \* lines 919-950
                              LET it1 == (e1 - 1) * 4
                                  it2 == (e1 - 1) * 4 + 4
                                  faces1_sort == Slice(tri_faces_sort, it1, it2)
                                  faces1_unsorted == Slice(tri_faces, it1, it2)
                                  found == find_row(face, faces1_sort)
                              IN  IF found.exc # "none"
                                  THEN /\ FacesRaise(found.exc)
                                       /\ rows' = [rows EXCEPT !.i1 = i1, !.it1 = it1, !.it2 = it2]
                                       /\ UNCHANGED <<pending, owner, neighbor, face_new, classified>>
                                  ELSE LET on == pick_owner(face, faces1_unsorted[found.n1 + 1], e1, e2)
                                       IN  /\ owner' = on[1]
                                           /\ neighbor' = on[2]
                                           /\ face_new' = faces1_unsorted[found.n1 + 1]
                                           /\ rows' = [rows EXCEPT !.i1 = i1, !.it1 = it1,
                                                                   !.it2 = it2, !.n1 = found.n1]
                                           /\ visited(type_mapper[i1])
                           [] i1 = 2 ->
                              \* lines 952-954
                              /\ rows' = [rows EXCEPT !.i1 = i1, !.iq1 = iq_start[2],
                                                      !.iq2 = iq_start[2] + 6]
                              /\ UNCHANGED <<owner, neighbor, face_new>>
                              /\ visited(type_mapper[i1])
                           [] i1 = 3 ->
                              \* lines 956-961
                              /\ rows' = [rows EXCEPT !.i1 = i1, !.iq1 = iq_start[3],
                                                      !.iq2 = iq_start[3] + 1,
                                                      !.it1 = it_start[3],
                                                      !.it2 = it_start[3] + 4]
                              /\ UNCHANGED <<owner, neighbor, face_new>>
                              /\ visited(type_mapper[i1])
                           [] i1 = 4 ->
                              \* lines 962-966
                              /\ rows' = [rows EXCEPT !.i1 = i1, !.iq1 = iq_start[4],
                                                      !.iq2 = iq_start[4] + 3,
                                                      !.it1 = it_start[4],
                                                      !.it2 = it_start[4] + 2]
                              /\ UNCHANGED <<owner, neighbor, face_new>>
                              /\ visited(type_mapper[i1])
                           [] OTHER ->
                              \* lines 967-968: type_mapper has no key i1, the
                              \* message of the NotImplementedError cannot be built
                              /\ FacesRaise("KeyError")
                              /\ rows' = [rows EXCEPT !.i1 = i1]
                              /\ UNCHANGED <<pending, owner, neighbor, face_new, classified>>
    /\ UNCHANGED <<el, it, iq, tri_faces, quad_faces, tri_face_to_eids,
                   quad_face_to_eids, it_start, iq_start, min_eids>>
    /\ UNCHANGED <<nameVars, volVars, codecVars>>

\* lines 985-986: every key was visited, the function returns
FacesReturn ==
    /\ faces_pc = "classify"
    /\ pending = {}
    /\ faces_pc' = "done"
    /\ UNCHANGED <<faces_exc, enumVars, classVars>>
    /\ UNCHANGED <<nameVars, volVars, codecVars>>

-----------------------------------------------------------------------------
(* struct: binary words.  An int32 is an integer of -2^31 .. 2^31-1; a     *)
(* float is kept as its bytes, most significant first.                     *)

Reverse(s) == [i \in 1..Len(s) |-> s[Len(s) + 1 - i]]

Min(a, b) == IF a <= b THEN a ELSE b

\* the bytes of a word in the order '<' or '>' stores them, from or to the
\* order most significant first
msb_first(endian, b) == IF endian = "<" THEN Reverse(b) ELSE b

\* struct.unpack(endian + 'i', b)
unpack_i(endian, b) ==
    LET m == msb_first(endian, b)
    IN  (IF m[1] >= 128 THEN m[1] - 256 ELSE m[1]) * 16777216
        + m[2] * 65536 + m[3] * 256 + m[4]

\* a byte order that ignores the '<' of the format
pack_i_mutant_big_endian(endian, v) ==
    <<(v \div 16777216) % 256, (v \div 65536) % 256, (v \div 256) % 256, v % 256>>

\* struct.pack(endian + 'i', v)
pack_i(endian, v) ==
    msb_first(endian, <<(v \div 16777216) % 256, (v \div 65536) % 256,
                        (v \div 256) % 256, v % 256>>)

\* a signaling NaN: exponent all ones, fraction not zero, its first bit 0
is_snan(m) ==
    IF Len(m) = 4
    THEN /\ m[1] % 128 = 127
         /\ m[2] >= 128
         /\ (m[2] % 128) \div 64 = 0
         /\ <<m[2] % 128, m[3], m[4]>> # <<0, 0, 0>>
    ELSE /\ m[1] % 128 = 127
         /\ m[2] \div 16 = 15
         /\ (m[2] % 16) \div 8 = 0
         /\ <<m[2] % 16, m[3], m[4], m[5], m[6], m[7], m[8]>> # <<0, 0, 0, 0, 0, 0, 0>>

\* the quiet NaN a conversion between float widths makes of a signaling one
quieted(m) ==
    [m EXCEPT ![2] = IF Len(m) = 4 THEN @ + 64 ELSE @ + 8]

\* a float that passes through C float <-> double conversions (struct's 'f',
\* numpy's float32 <-> Python float, a value returned in a register): the
\* bits are kept, except that the platform may quiet a signaling NaN
converted(m, quiet) == IF quiet /\ is_snan(m) THEN quieted(m) ELSE m

\* struct.unpack(endian + 'f' or 'd', b), stored into the nodes array
unpack_f(endian, b, quiet) == converted(msb_first(endian, b), quiet)

\* the double of the value of a float32 m (C's (double)x, exact): the
\* exponent is rebiased, the fraction shifted up by 29 bits, a denormal is
\* normalised; the fraction of a NaN is kept
float_to_double(m) ==
    LET s == m[1] \div 128
        e == (m[1] % 128) * 2 + m[2] \div 128
        f == (m[2] % 128) * 65536 + m[3] * 256 + m[4]
        top == CHOOSE q \in 0..22 : f \div (2 ^ q) = 1
        E == IF e = 255 THEN 2047
             ELSE IF e # 0 THEN e + 896
             ELSE IF f = 0 THEN 0
             ELSE top + 874
        fr == IF e = 0 /\ f # 0 THEN (f * (2 ^ (23 - top))) % 8388608 ELSE f
    IN  <<s * 128 + E \div 16, (E % 16) * 16 + fr \div 524288, (fr \div 2048) % 256,
          (fr \div 8) % 256, (fr % 8) * 32, 0, 0, 0>>

\* the float32 nearest to the value of a float64 m (C's (float)x, ties to
\* even), as sign, exponent and fraction in four bytes.  A finite value
\* that rounds beyond the largest float32 gives infinity, which is
\* reported as overflow; a NaN stays a NaN, quiet.
double_to_float(m) ==
    LET s == m[1] \div 128
        E == (m[1] % 128) * 16 + m[2] \div 16
        hi == (m[2] % 16) * 524288 + m[3] * 2048 + m[4] * 8 + m[5] \div 32
        guard == (m[5] % 32) \div 16
        sticky == <<m[5] % 16, m[6], m[7], m[8]>> # <<0, 0, 0, 0>>
        e == E - 1023
        shift == -126 - e
        K == 8388608 + hi
        q == K \div (2 ^ shift)
        rest == K % (2 ^ shift)
        half == 2 ^ (shift - 1)
        low == guard = 1 \/ sticky
        bits ==
            IF E = 2047
            THEN IF hi = 0 /\ ~low THEN 2139095040
                 ELSE 2139095040 + (IF hi \div 4194304 = 1 THEN hi ELSE hi + 4194304)
            ELSE IF E = 0 THEN 0
            ELSE IF e > 127 THEN 2139095040
            ELSE IF e >= -126
            THEN (e + 127) * 8388608 + hi
                 + (IF guard = 1 /\ (sticky \/ hi % 2 = 1) THEN 1 ELSE 0)
            ELSE IF shift > 25 THEN 0
            ELSE q + (IF rest > half \/ (rest = half /\ (low \/ q % 2 = 1)) THEN 1 ELSE 0)
    IN  [overflow |-> E # 2047 /\ bits = 2139095040,
         m |-> <<s * 128 + bits \div 16777216, (bits \div 65536) % 256,
                 (bits \div 256) % 256, bits % 256>>]

\* struct.pack(endian + float_fmt, x) of an element x of the nodes array,
\* whose width is that of the array: 'd' widens a float32, 'f' rounds a
\* float64 and raises OverflowError when it is too large
pack_f(endian, float_fmt, m, quiet) ==
    LET v == converted(m, quiet)
    IN  IF float_fmt = "d"
        THEN [exc |-> "none",
              bytes |-> msb_first(endian, IF Len(m) = 8 THEN v ELSE float_to_double(v))]
        ELSE IF Len(m) = 4
        THEN [exc |-> "none", bytes |-> msb_first(endian, v)]
        ELSE IF double_to_float(v).overflow
        THEN [exc |-> "OverflowError", bytes |-> <<>>]
        ELSE [exc |-> "none", bytes |-> msb_first(endian, double_to_float(v).m)]

\* the k-th word of `size` bytes of data
word(data, size, k) == SubSeq(data, (k - 1) * size + 1, k * size)

\* numpy reshape((nrows, ncols)) of a flat array
reshape(flat, ncols) ==
    [r \in 1..(Len(flat) \div ncols) |-> SubSeq(flat, (r - 1) * ncols + 1, r * ncols)]

\* numpy ravel() of an array of rows of ncols entries
ravel(a, ncols) ==
    [k \in 1..(Len(a) * ncols) |-> a[((k - 1) \div ncols) + 1][((k - 1) % ncols) + 1]]

RECURSIVE join(_)
\* the bytes of a sequence of words, one after the other
join(ws) == IF ws = <<>> THEN <<>> ELSE Head(ws) \o join(Tail(ws))

\* a read that gives k bytes whatever the file holds, zeros past its end
file_read_mutant_zero_fill(f, pos, k) ==
    [i \in 1..k |-> IF pos + i <= Len(f) THEN f[pos + i] ELSE 0]

\* file.read(k) at position pos: at most k bytes, fewer at the end of the file
file_read(f, pos, k) == SubSeq(f, pos + 1, Min(pos + k, Len(f)))

-----------------------------------------------------------------------------
(* UGRID.__init__, UGRID.read_ugrid, UGRID.check_hanging_nodes and         *)
(* UGRID.write_ugrid.  A call runs from its first line to its return or    *)
(* its exception in one step: nothing else runs in between.                *)

\* the arrays of a UGRID object, as a record
EmptyArrays ==
    [nodes |-> <<>>, tris |-> <<>>, quads |-> <<>>, pids |-> <<>>,
     tets |-> <<>>, penta5s |-> <<>>, penta6s |-> <<>>, hexas |-> <<>>]

\* check_hanging_nodes has returned nothing
NoReturn == [diff |-> <<>>, printed |-> <<>>, row |-> <<>>, stop_on_diff |-> TRUE]

self_arrays ==
    [nodes |-> nodes, tris |-> tris, quads |-> quads, pids |-> pids,
     tets |-> tets, penta5s |-> penta5s, penta6s |-> penta6s, hexas |-> hexas]

\* x.<tag>.ugrid and out.<tag>.ugrid
file_name(src) ==
    (IF src = "x" THEN <<"x", ".">> \o file_tag ELSE <<"o", "u", "t", ".">> \o out_tag)
        \o <<".">> \o ext_ugrid

\* the blocks that follow the header, in the order read_ugrid reads them
read_blocks ==
    <<"nodes", "tris", "quads", "pids", "tets", "penta5s", "penta6s", "hexas">>

\* the entries of a row of a block
ncols(block) ==
    CASE block = "nodes" -> 3
      [] block = "tris" -> 3
      [] block = "quads" -> 4
      [] block = "pids" -> 1
      [] block = "tets" -> 4
      [] block = "penta5s" -> 5
      [] block = "penta6s" -> 6
      [] block = "hexas" -> 8

\* patch ids of the triangles only
npids_of_mutant_tris_only(ntris, nquads) == ntris

\* line 89: npids = nquads + ntris
npids_of(ntris, nquads) == nquads + ntris

\* the rows of a block, c being the seven counts of the header:
\* nnodes, ntris, nquads, ntets, npenta5s, npenta6s, nhexas
nrows(block, c) ==
    CASE block = "nodes" -> c[1]
      [] block = "tris" -> c[2]
      [] block = "quads" -> c[3]
      [] block = "pids" -> npids_of(c[2], c[3])
      [] block = "tets" -> c[4]
      [] block = "penta5s" -> c[5]
      [] block = "penta6s" -> c[6]
      [] block = "hexas" -> c[7]

\* the bytes of an entry of a block
itemsize(block, fmt) == IF block = "nodes" THEN fmt.nfloat ELSE 4

RECURSIVE read_from(_, _, _, _, _)
\* lines 113-186: block i and those after it.  Each block is read, counted
\* in self.n, unpacked (struct.error when the data are short) and reshaped.
read_from(f, fmt, quiet, i, st) ==
    IF i > Len(read_blocks) THEN st
    ELSE
        LET block == read_blocks[i]
            size == itemsize(block, fmt)
            nbytes == nrows(block, st.counts) * ncols(block) * size
            data == file_read(f, st.pos, nbytes)
            read == [st EXCEPT !.pos = @ + Len(data),
                               !.requested = @ + nbytes,
                               !.log = Append(@, <<block, st.pos, nbytes>>)]
        IN  IF Len(data) # nbytes THEN [read EXCEPT !.exc = "struct.error"]
            ELSE
                LET flat == [k \in 1..(nbytes \div size) |->
                                IF block = "nodes"
                                THEN unpack_f(fmt.endian, word(data, size, k), quiet)
                                ELSE unpack_i(fmt.endian, word(data, size, k))]
                    a == IF block = "pids" THEN flat ELSE reshape(flat, ncols(block))
                IN  read_from(f, fmt, quiet, i + 1,
                              [read EXCEPT !.arrays = [@ EXCEPT ![block] = a]])

\* lines 84-186: the header, the allocation of the arrays (ValueError for a
\* negative count) and the blocks.  Gives the exception, the file position,
\* the bytes asked for, the reads made and the local arrays.
decode(f, fmt, quiet) ==
    LET data == file_read(f, 0, 28)
        st == [exc |-> "none", pos |-> Len(data), requested |-> 28,
               log |-> <<<<"header", 0, 28>>>>, counts |-> <<>>,
               arrays |-> EmptyArrays]
    IN  IF Len(data) # 28 THEN [st EXCEPT !.exc = "struct.error"]
        ELSE
            LET c == [k \in 1..7 |-> unpack_i(fmt.endian, word(data, 4, k))]
            IN  IF \E k \in 1..7 : c[k] < 0 THEN [st EXCEPT !.exc = "ValueError", !.counts = c]
                ELSE read_from(f, fmt, quiet, 1, [st EXCEPT !.counts = c])

\* read_ugrid(x.<tag>.ugrid) or read_ugrid(out.<tag>.ugrid) on the object.
\* The file x is there; the file out is there once write_ugrid has opened it.
read_ugrid(src) ==
    /\ \E quiet \in BOOLEAN :
        LET out == determine_dytpe_nfloat_endian_from_ugrid_filename(file_name(src))
            f == IF src = "x" THEN ugrid_file ELSE f_ugrid
        IN  IF out.exc # "none"
            THEN /\ last_call' = [op |-> "read_ugrid", file |-> src, exc |-> out.exc]
                 /\ read_log' = <<>>
                 /\ UNCHANGED <<meshVars, volVars, mesh_from, assigned, checked>>
            ELSE IF src = "out" /\ ~out_exists
            THEN \* line 84: open(ugrid_filename, 'rb') of a missing file raises
                 \* IOError before anything is read or counted in self.n
                 /\ last_call' = [op |-> "read_ugrid", file |-> src, exc |-> "IOError"]
                 /\ read_log' = <<>>
                 /\ UNCHANGED <<meshVars, volVars, mesh_from, assigned, checked>>
            ELSE
                \E r \in {decode(f, out.value, quiet)} :
                    /\ n' = n + r.requested
                    /\ read_log' = r.log
                    /\ IF r.exc = "none"
                       THEN \* lines 190-198
                            /\ nodes' = r.arrays.nodes
                            /\ tris' = r.arrays.tris
                            /\ quads' = r.arrays.quads
                            /\ pids' = r.arrays.pids
                            /\ tets' = r.arrays.tets
                            /\ penta5s' = r.arrays.penta5s
                            /\ penta6s' = r.arrays.penta6s
                            /\ hexas' = r.arrays.hexas
                            /\ mesh_from' = src
                            /\ assigned' = r.arrays
                            /\ checked' = FALSE
                       ELSE UNCHANGED <<nodes, tris, quads, pids, volVars, mesh_from,
                                        assigned, checked>>
                    /\ last_call' =
                         [op |-> "read_ugrid", file |-> src,
                          exc |-> IF r.exc # "none" THEN r.exc
                                  \* line 223: assert self.n == ugrid_file.tell()
                                  ELSE IF n' # r.pos THEN "AssertionError"
                                  ELSE "none"]
    /\ calls' = calls + 1
    /\ UNCHANGED <<fileVars, write_log, wrote, returned, tag_data, skin, isort, bdf_file,
                   boundary_file, nameVars, facesVars>>

\* numpy unique() of every entry of the rows of a
unique(a) == UNION {Range(a[r]) : r \in DOMAIN a}

\* len(unique(row)) differs from the length of the row
is_degenerate(row) == Cardinality(Range(row)) # Len(row)

\* line 346: nnodes != len(nids)
count_differs(nnodes, nids) == nnodes # Cardinality(nids)

\* a check of the quads like that of the other kinds
asserted_rows_mutant_quads_too(m) ==
    m.tris \o m.quads \o m.tets \o m.penta5s \o m.penta6s \o m.hexas

\* lines 358-371: the rows under an assert, in the order of the loops (the
\* quads are printed, their assert is commented out)
asserted_rows(m) == m.tris \o m.tets \o m.penta5s \o m.penta6s \o m.hexas

\* lines 305-372, check_hanging_nodes(stop_on_diff): the exception raised,
\* the diff it carries or the diff returned, the row the AssertionError
\* shows, and the quads printed
hanging_nodes_check(m, stop_on_diff) ==
    LET vols == {a \in {m.tets, m.penta5s, m.penta6s, m.hexas} : Len(a) # 0}
        nids == UNION {unique(a) : a \in vols}
        nnodes == Len(m.nodes)
        expected == 1..nnodes
        differs == count_differs(nnodes, nids)
        \* lines 347-352: union1d of the two setdiff1d, [] when the counts agree
        diff == IF differs THEN SortedKeys((expected \ nids) \cup (nids \ expected))
                ELSE <<>>
        bad == SelectSeq(asserted_rows(m), is_degenerate)
        printed == IF SelectSeq(m.tris, is_degenerate) = <<>>
                   THEN SelectSeq(m.quads, is_degenerate) ELSE <<>>
        result(exc, d, p, row) ==
            [exc |-> exc, diff |-> d, printed |-> p, row |-> row,
             stop_on_diff |-> stop_on_diff]
    IN  IF vols = {} THEN result("RuntimeError", <<>>, <<>>, <<>>)
        ELSE IF differs /\ stop_on_diff THEN result("RuntimeError", diff, <<>>, <<>>)
        ELSE IF bad # <<>> THEN result("AssertionError", <<>>, printed, Head(bad))
        ELSE result("none", diff, printed, <<>>)

\* check_hanging_nodes() as write_ugrid and write_bdf call it: the exception
\* raised, or "none"
check_hanging_nodes(m) == hanging_nodes_check(m, TRUE).exc

\* check_hanging_nodes(stop_on_diff) called on the object
check_hanging_nodes_call ==
    /\ \E stop_on_diff \in BOOLEAN :
        \E r \in {hanging_nodes_check(self_arrays, stop_on_diff)} :
            /\ last_call' = [op |-> "check_hanging_nodes", file |-> "none", exc |-> r.exc]
            /\ returned' = [diff |-> r.diff, printed |-> r.printed, row |-> r.row,
                            stop_on_diff |-> stop_on_diff]
            /\ checked' = (checked \/ r.exc = "none")
    /\ calls' = calls + 1
    /\ UNCHANGED <<meshVars, volVars, fileVars, read_log, write_log, mesh_from, wrote,
                   assigned, tag_data, skin, isort, bdf_file, boundary_file,
                   nameVars, facesVars>>

\* the blocks of write_ugrid, in the order of lines 402-450
write_blocks == <<"header">> \o read_blocks

\* lines 402-450: the bytes write_ugrid packs for a block, or the exception
\* of Struct.pack: OverflowError for a node too large for the float format
\* of the file name, struct.error when the patch ids are not ntris + nquads
packed(block, m, fmt, quiet) ==
    IF block = "header"
    THEN [exc |-> "none",
          bytes |-> join([k \in 1..7 |->
                 pack_i(fmt.endian,
                        Len(m[<<"nodes", "tris", "quads", "tets", "penta5s",
                                "penta6s", "hexas">>[k]]))])]
    ELSE IF block = "nodes"
    THEN LET flat == ravel(m.nodes, 3)
             ws == [k \in DOMAIN flat |-> pack_f(fmt.endian, fmt.float_fmt, flat[k], quiet)]
         IN  IF \E k \in DOMAIN ws : ws[k].exc # "none"
             THEN [exc |-> "OverflowError", bytes |-> <<>>]
             ELSE [exc |-> "none", bytes |-> join([k \in DOMAIN ws |-> ws[k].bytes])]
    ELSE IF block = "pids" /\ Len(m.pids) # Len(m.tris) + Len(m.quads)
    THEN [exc |-> "struct.error", bytes |-> <<>>]
    ELSE LET flat == IF block = "pids" THEN m.pids ELSE ravel(m[block], ncols(block))
         IN  [exc |-> "none",
              bytes |-> join([k \in DOMAIN flat |-> pack_i(fmt.endian, flat[k])])]

\* blocks that are written only when the check of the mesh passes
is_written_mutant_checked_first(block, m) ==
    /\ block \in {"header", "nodes", "pids"} \/ Len(m[block]) # 0
    /\ check_hanging_nodes(m) = "none"

\* the header, the nodes and the patch ids are always written, another block
\* when it has a row (`if ntris:` and the like)
is_written(block, m) ==
    block \in {"header", "nodes", "pids"} \/ Len(m[block]) # 0

RECURSIVE write_from(_, _, _, _, _)
\* block i of write_blocks and those after it, appended to the file; an
\* exception of Struct.pack ends the writing before the block is written
write_from(m, fmt, quiet, i, st) ==
    IF i > Len(write_blocks) THEN st
    ELSE
        LET block == write_blocks[i]
            data == packed(block, m, fmt, quiet)
        IN  IF ~is_written(block, m) THEN write_from(m, fmt, quiet, i + 1, st)
            ELSE IF data.exc # "none" THEN [st EXCEPT !.exc = data.exc]
            ELSE write_from(m, fmt, quiet, i + 1,
                     [st EXCEPT !.bytes = @ \o data.bytes,
                                !.log = Append(@, <<block, Len(st.bytes), Len(data.bytes)>>)])

\* a check of the surface elements only
asserts_pass_mutant_shells_only(nshells, nsolids) == nshells > 0

\* lines 399-400: assert nshells > 0, assert nsolids > 0
asserts_pass(nshells, nsolids) == nshells > 0 /\ nsolids > 0

\* write_ugrid(out.<out_format>.ugrid) on the object
write_ugrid(out_format) ==
    /\ \E quiet \in BOOLEAN :
        LET outi == determine_dytpe_nfloat_endian_from_ugrid_filename(
                        <<"o", "u", "t", ".">> \o out_format \o <<".">> \o ext_ugrid)
            m == self_arrays
            nshells == Len(tris) + Len(quads)
            nsolids == Len(tets) + Len(penta5s) + Len(penta6s) + Len(hexas)
            \* no file is opened: the files are as they were
            raised(kind) ==
                /\ last_call' = [op |-> "write_ugrid", file |-> "out", exc |-> kind]
                /\ write_log' = <<>>
                /\ out_tag' = out_format
                /\ UNCHANGED <<out_files, wrote, checked>>
        IN  IF outi.exc # "none" THEN raised(outi.exc)
            \* lines 399-400, before the file is opened
            ELSE IF ~asserts_pass(nshells, nsolids) THEN raised("AssertionError")
            ELSE
                \E w \in {write_from(m, outi.value, quiet, 1,
                                      [exc |-> "none", bytes |-> <<>>, log |-> <<>>])} :
                    /\ out_tag' = out_format
                    \* line 402: open(..., 'wb') makes the file or empties it
                    /\ out_files' = DictSet(out_files, out_format, w.bytes)
                    /\ write_log' = w.log
                    /\ wrote' = [mesh |-> m, from |-> mesh_from]
                    /\ IF w.exc # "none"
                       THEN \* the with block closes the file, line 451 is not reached
                            /\ last_call' = [op |-> "write_ugrid", file |-> "out",
                                             exc |-> w.exc]
                            /\ UNCHANGED checked
                       ELSE \* line 451, after the file is closed
                            /\ last_call' = [op |-> "write_ugrid", file |-> "out",
                                             exc |-> check_hanging_nodes(m)]
                            /\ checked' = (checked \/ check_hanging_nodes(m) = "none")
    /\ calls' = calls + 1
    /\ UNCHANGED <<meshVars, volVars, file_tag, ugrid_file, read_log, mesh_from,
                   assigned, returned, tag_data, skin, isort, bdf_file, boundary_file,
                   nameVars, facesVars>>

\* UGRID(): a new object takes the place of the one in use
UGRID_init ==
    /\ <<n, self_arrays>> # <<0, EmptyArrays>>
    /\ n' = 0
    /\ nodes' = <<>>
    /\ tris' = <<>>
    /\ quads' = <<>>
    /\ pids' = <<>>
    /\ tets' = <<>>
    /\ penta5s' = <<>>
    /\ penta6s' = <<>>
    /\ hexas' = <<>>
    /\ mesh_from' = "none"
    /\ isort' = <<>>
    /\ assigned' = EmptyArrays
    /\ checked' = FALSE
    /\ last_call' = [op |-> "UGRID", file |-> "none", exc |-> "none"]
    /\ UNCHANGED <<fileVars, calls, read_log, write_log, wrote, returned, tag_data, skin,
                   bdf_file, boundary_file, nameVars, facesVars>>

-----------------------------------------------------------------------------
(* UGRID.skin_solids (lines 609-703)                                       *)

\* skin_solids has not been called
NoSkin == [called |-> FALSE, exc |-> "none", tris |-> <<>>, quads |-> <<>>]

\* a[:, idx] for zero-based columns idx
cols(a, idx) == [r \in DOMAIN a |-> [j \in DOMAIN idx |-> a[r][idx[j] + 1]]]

\* a[start : start + len(blocks[1])] = blocks[1], and the following slices of
\* the same length for the other blocks
SetSlices(a, start, blocks) ==
    LET len == Len(blocks[1])
        at(r) == \* the block and the row of it that lands on row r, zero-based
            LET k == ((r - start) \div len) + 1
            IN  blocks[k][((r - start) % len) + 1]
    IN  [r \in DOMAIN a |->
            IF len > 0 /\ r - 1 >= start /\ r - 1 < start + len * Len(blocks)
            THEN at(r - 1) ELSE a[r]]

\* lines 609-703 on the arrays m. bounds_checked tells whether this numpy
\* checks an index array against an axis when the result is empty. The
\* result is the exception raised and the local arrays tris and quads as
\* they are when it is raised.
skin_solids(m, bounds_checked) ==
    LET nhexas == Len(m.hexas)
        npenta6s == Len(m.penta6s)
        npenta5s == Len(m.penta5s)
        ntets == Len(m.tets)
        \* lines 618-621
        nquads == nhexas * 6 + npenta5s + 3 * npenta6s
        ntris == npenta5s * 4 + npenta6s * 2 + ntets * 4
        \* lines 625-634
        tris1 == SetSlices(zeros(ntris, 3), 0,
                           <<cols(m.tets, <<0, 1, 2>>), cols(m.tets, <<0, 1, 3>>),
                             cols(m.tets, <<1, 2, 3>>), cols(m.tets, <<0, 2, 3>>)>>)
        ntri_start1 == 4 * ntets
        \* lines 636-655
        quads1 == SetSlices(zeros(nquads, 4), 0,
                            <<cols(m.hexas, <<0, 1, 2, 3>>), cols(m.hexas, <<4, 5, 6, 7>>),
                              cols(m.hexas, <<0, 3, 7, 4>>), cols(m.hexas, <<1, 2, 6, 5>>),
                              cols(m.hexas, <<0, 1, 5, 4>>), cols(m.hexas, <<3, 2, 6, 7>>)>>)
        nquad_start1 == 6 * nhexas
        \* lines 657-669; nquad_start is not advanced
        quads2 == SetSlices(quads1, nquad_start1, <<cols(m.penta5s, <<0, 1, 2, 3>>)>>)
        tris2 == SetSlices(tris1, ntri_start1,
                           <<cols(m.penta5s, <<0, 1, 4>>), cols(m.penta5s, <<1, 2, 4>>),
                             cols(m.penta5s, <<2, 3, 4>>), cols(m.penta5s, <<3, 0, 4>>)>>)
    IN  IF npenta6s > 0
        THEN \* lines 671-674: the rows of the prisms are taken from
             \* self.penta5s. With pyramids, column 5 of self.penta5s[:, [3, 4, 5]]
             \* is out of bounds (line 673); without, that is an error where
             \* numpy checks it, and elsewhere the 3 columns of faces1 do not
             \* fit the 4 of quads (line 674)
             [called |-> TRUE,
              exc |-> IF npenta5s > 0 \/ bounds_checked THEN "IndexError" ELSE "ValueError",
              tris |-> tris2, quads |-> quads2]
        ELSE \* line 685 binds tris to None, the value of ndarray.sort(), after
             \* the rows are sorted in place; line 687 calls None.sort()
             [called |-> TRUE, exc |-> "AttributeError",
              tris |-> sort_rows(tris2), quads |-> quads2]

\* self.skin_solids()
skin_solids_call ==
    /\ \E bounds_checked \in BOOLEAN :
        \E r \in {skin_solids(self_arrays, bounds_checked)} :
            /\ skin' = r
            /\ last_call' = [op |-> "skin_solids", file |-> "none", exc |-> r.exc]
    /\ calls' = calls + 1
    /\ UNCHANGED <<meshVars, volVars, fileVars, read_log, write_log, mesh_from, wrote,
                   assigned, returned, checked, tag_data, isort, bdf_file,
                   boundary_file, nameVars, facesVars>>

-----------------------------------------------------------------------------
(* UGRID._write_boundary (lines 568-607) and UGRID.write_bdf (lines        *)
(* 226-303, 453-499)                                                       *)

\* no boundary file
NoBoundaryFile == [exists |-> FALSE, nboundaries |-> 0, patches |-> <<>>, closed |-> FALSE]

\* line 584, argsort(self.pids): the zero-based orders that sort a; numpy's
\* default kind is not a stable sort, the order of equal entries is any
argsort(a) ==
    {p \in [DOMAIN a -> 0..(Len(a) - 1)] :
        /\ \A i, j \in DOMAIN a : i # j => p[i] # p[j]
        /\ \A i, j \in DOMAIN a : i < j => a[p[i] + 1] <= a[p[j] + 1]}

\* a sort that leaves the array as it is
sorted_in_place_mutant_no_sort(a) == a

\* line 585, self.pids.sort(): the array after the sort in place
sorted_in_place(a) == sort(a)

\* a default name for an id without an entry
tag_lookup_mutant_default_name(td, id) ==
    IF id \in DOMAIN td THEN [exc |-> "none", name |-> td[id]]
    ELSE [exc |-> "none", name |-> <<"patch", 0>>]

\* lines 589-592, tag_data[iboundary] and data[0]: the name, or KeyError
tag_lookup(td, id) ==
    IF id \in DOMAIN td THEN [exc |-> "none", name |-> td[id]]
    ELSE [exc |-> "KeyError", name |-> <<>>]

\* line 594, where(iboundary == pids)[0]: the zero-based indices
where_equal(id, a) == {j - 1 : j \in {k \in DOMAIN a : a[k] = id}}

SetMin(S) == CHOOSE x \in S : \A y \in S : x <= y

SetMax(S) == CHOOSE x \in S : \A y \in S : y <= x

\* the last index of the run
start_face_mutant_last_index(i) == SetMax(i)

\* line 596, startface = i.min()
start_face(i) == SetMin(i)

\* line 595, nfaces = i.max() - i.min() + 1
nfaces_of(i) == SetMax(i) - SetMin(i) + 1

\* lines 570-607 on the patch ids ps with the tag lookup td: the exception
\* raised, the patch ids of the object afterwards, the patches written
write_boundary(ps, td) ==
    LET uboundaries == SortedKeys(Range(ps))
        sorted == sorted_in_place(ps)
        i(k) == where_equal(uboundaries[k], sorted)
        \* the first id whose lookup or whose assert (line 598) fails
        fails(k) == \/ tag_lookup(td, uboundaries[k]).exc # "none"
                    \/ Cardinality(i(k)) # nfaces_of(i(k))
        failing == {k \in DOMAIN uboundaries : fails(k)}
        stop == IF failing = {} THEN Len(uboundaries) + 1 ELSE SetMin(failing)
        patch(k) == [name |-> tag_lookup(td, uboundaries[k]).name,
                     nFaces |-> nfaces_of(i(k)),
                     startFace |-> start_face(i(k))]
    IN  [exc |-> IF failing = {} THEN "none"
                 ELSE IF tag_lookup(td, uboundaries[stop]).exc # "none"
                      THEN tag_lookup(td, uboundaries[stop]).exc
                 ELSE "AssertionError",
         pids |-> sorted,
         file |-> [exists |-> TRUE, nboundaries |-> Len(uboundaries),
                   patches |-> [k \in 1..(stop - 1) |-> patch(k)],
                   closed |-> failing = {}]]

\* self._write_boundary(boundary_filename, tag_filename)
write_boundary_call ==
    /\ \E r \in {write_boundary(pids, tag_data)}, p \in argsort(pids) :
        /\ pids' = r.pids
        /\ boundary_file' = r.file
        \* line 607, after the with block
        /\ isort' = IF r.exc = "none" THEN p ELSE isort
        /\ last_call' = [op |-> "_write_boundary", file |-> "boundary", exc |-> r.exc]
    /\ calls' = calls + 1
    /\ UNCHANGED <<n, nodes, tris, quads, volVars, fileVars, read_log, write_log,
                   mesh_from, wrote, assigned, returned, checked, tag_data, skin, bdf_file,
                   nameVars, facesVars>>

\* lines 273-289: PSHELL per distinct patch id, then the shell cards, the
\* triangles before the quads, element eid with pids[eid-1]
shell_cards(m) ==
    LET upids == SortedKeys(Range(m.pids))
        ntris == Len(m.tris)
    IN  [k \in DOMAIN upids |-> <<"PSHELL", upids[k]>>]
        \o [e \in DOMAIN m.tris |-> <<"CTRIA3", e, m.pids[e], m.tris[e]>>]
        \o [e \in DOMAIN m.quads |-> <<"CQUAD4", ntris + e, m.pids[ntris + e], m.quads[e]>>]

\* lines 453-499 with convert_pyram_to_penta=True: PSOLID and the solid
\* cards from element id eid0 on, a pyramid as a CPENTA with its fifth node
\* twice
solid_cards(m, eid0, pid) ==
    LET e0 == eid0 - 1
        e1 == e0 + Len(m.tets)
        e2 == e1 + Len(m.penta5s)
        e3 == e2 + Len(m.penta6s)
    IN  << <<"PSOLID", pid>> >>
        \o [e \in DOMAIN m.tets |-> <<"CTETRA", e0 + e, pid, m.tets[e]>>]
        \o [e \in DOMAIN m.penta5s |->
                <<"CPENTA", e1 + e, pid, Append(m.penta5s[e], m.penta5s[e][5])>>]
        \o [e \in DOMAIN m.penta6s |-> <<"CPENTA", e2 + e, pid, m.penta6s[e]>>]
        \o [e \in DOMAIN m.hexas |-> <<"CHEXA", e3 + e, pid, m.hexas[e]>>]

\* write_bdf(bdf_filename) with its defaults on an object with a patch id
\* per surface element: the exception raised and the cards written
bdf_written(m) ==
    LET checked_exc == check_hanging_nodes(m)
        grids == [k \in DOMAIN m.nodes |-> <<"GRID", k, m.nodes[k]>>]
        head == << <<"MAT1", 1>> >> \o grids \o shell_cards(m)
    IN  \* line 238, before the file is opened
        IF checked_exc # "none" THEN [exc |-> checked_exc, opened |-> FALSE, cards |-> <<>>]
        \* line 293, pids.max() of an empty array
        ELSE IF m.pids = <<>> THEN [exc |-> "ValueError", opened |-> TRUE, cards |-> head]
        ELSE [exc |-> "none", opened |-> TRUE,
              cards |-> head
                        \o solid_cards(m, Len(m.tris) + Len(m.quads) + 1,
                                       SetMax(Range(m.pids)) + 1)
                        \o << <<"ENDDATA">> >>]

\* self.write_bdf(bdf_filename)
write_bdf ==
    /\ \E r \in {bdf_written(self_arrays)} :
        /\ bdf_file' = IF r.opened THEN r.cards ELSE bdf_file
        /\ checked' = (checked \/ r.opened)
        /\ last_call' = [op |-> "write_bdf", file |-> "bdf", exc |-> r.exc]
    /\ calls' = calls + 1
    /\ UNCHANGED <<meshVars, volVars, fileVars, read_log, write_log, mesh_from, wrote,
                   assigned, returned, tag_data, skin, isort, boundary_file, nameVars,
                   facesVars>>

-----------------------------------------------------------------------------
(* States in which a part of the program has not been used                 *)

\* no filename has been parsed
NameFresh ==
    /\ ugrid_filename = <<>>
    /\ name_pc = "idle"
    /\ descriptor = NoValue
    /\ name_exc = "none"

\* lines 42-45: the volume arrays of a new UGRID object are empty
VolFresh ==
    /\ tets = <<>>
    /\ penta5s = <<>>
    /\ penta6s = <<>>
    /\ hexas = <<>>

\* no call on a populated object has been made
OpsFresh ==
    /\ assigned = EmptyArrays
    /\ returned = NoReturn
    /\ checked = FALSE
    /\ tag_data = EmptyDict
    /\ skin = NoSkin
    /\ isort = <<>>
    /\ bdf_file = <<>>
    /\ boundary_file = NoBoundaryFile

\* lines 36-40 and no file: a new UGRID object, no call made
CodecFresh ==
    /\ n = 0
    /\ nodes = <<>>
    /\ tris = <<>>
    /\ quads = <<>>
    /\ pids = <<>>
    /\ file_tag = <<>>
    /\ out_tag = <<>>
    /\ ugrid_file = <<>>
    /\ out_files = EmptyDict
    /\ calls = 0
    /\ last_call = [op |-> "none", file |-> "none", exc |-> "none"]
    /\ read_log = <<>>
    /\ write_log = <<>>
    /\ mesh_from = "none"
    /\ wrote = [mesh |-> EmptyArrays, from |-> "none"]
    /\ OpsFresh

\* _write_faces has not been called
FacesFresh ==
    /\ faces_pc = "call"
    /\ faces_exc = "none"
    /\ el = 0
    /\ it = 0
    /\ iq = 0
    /\ eid = Unbound
    /\ tri_faces = <<>>
    /\ quad_faces = <<>>
    /\ tri_face_to_eids = EmptyDict
    /\ quad_face_to_eids = EmptyDict
    /\ it_start = EmptyDict
    /\ iq_start = EmptyDict
    /\ min_eids = EmptyDict
    /\ pending = {}
    /\ owner = Unbound
    /\ neighbor = Unbound
    /\ face_new = <<>>
    /\ rows = [i1 |-> Unbound, it1 |-> Unbound, it2 |-> Unbound,
               iq1 |-> Unbound, iq2 |-> Unbound, n1 |-> Unbound]
    /\ classified = EmptyDict

-----------------------------------------------------------------------------
(* SpecName: the filename parser applied to a bounded set of filenames     *)

MaxTagLen == 3

TagAlphabet == {"l", "b", "4", "8", "r"}
Tags == SeqsUpTo(TagAlphabet, MaxTagLen)
Bases == {<<"x">>, <<"a", ".", "b", "/", "x">>}
Exts == {ext_ugrid, <<"t", "x", "t">>}

\* <name>.<tag>.<ext>, and names with one part less or one part more
Filenames ==
    {b \o <<".">> \o t \o <<".">> \o e : b \in Bases, t \in Tags, e \in Exts}
    \cup {b \o <<".">> \o e : b \in Bases, e \in Exts}
    \cup {b \o <<".", "v", ".">> \o t \o <<".">> \o e :
            b \in Bases, t \in {<<"b", "8">>, <<"l", "b", "4">>}, e \in Exts}

NameInit ==
    /\ ugrid_filename \in Filenames
    /\ name_pc = "call"
    /\ descriptor = NoValue
    /\ name_exc = "none"
    /\ VolFresh
    /\ CodecFresh
    /\ FacesFresh

Determine ==
    /\ name_pc = "call"
    /\ LET r == determine_dytpe_nfloat_endian_from_ugrid_filename(ugrid_filename)
       IN  /\ name_pc' = IF r.exc = "none" THEN "returned" ELSE "raised"
           /\ descriptor' = r.value
           /\ name_exc' = r.exc
    /\ UNCHANGED <<ugrid_filename, volVars, codecVars, facesVars>>

NameNext == Determine

SpecName == NameInit /\ [][NameNext]_vars

-----------------------------------------------------------------------------
(* SpecFaces: _write_faces on a UGRID object whose volume arrays were      *)
(* assigned from a bounded set of meshes                                   *)

MaxTets == 3
MaxHexas == 2
MaxPenta5s == 2
MaxPenta6s == 1
MaxElements == 3

\* 1-based rows.  The three tetrahedra share faces pairwise; the two
\* hexahedra are two cubes sharing the face 5-6-7-8; the two pyramids stand
\* on the two sides of the face 1-2-3-4 of the first cube; the two prisms are
\* stacked on the cap 4-5-6.  A mesh holds no element twice.
TetCatalog == {<<1, 2, 3, 4>>, <<2, 3, 4, 5>>, <<1, 2, 3, 5>>}
HexaCatalog == {<<1, 2, 3, 4, 5, 6, 7, 8>>, <<5, 6, 7, 8, 9, 10, 11, 12>>}
Penta5Catalog == {<<1, 2, 3, 4, 5>>, <<4, 3, 2, 1, 6>>}
Penta6Catalog == {<<1, 2, 3, 4, 5, 6>>, <<4, 5, 6, 7, 8, 9>>}

\* The meshes of tetrahedra are those of the catalog and one of node ids
\* above 10^5, where allclose takes rows that differ by one for close: a
\* tetrahedron followed by two that share a face.
FacesInit ==
    /\ NameFresh
    /\ tets \in DistinctSeqsUpTo(TetCatalog, MaxTets)
                 \cup {<<<<1, 2, 3, 4>>, <<100001, 100002, 100003, 100004>>,
                         <<100002, 100003, 100004, 100005>>>>}
    /\ hexas \in DistinctSeqsUpTo(HexaCatalog, MaxHexas)
    /\ penta5s \in DistinctSeqsUpTo(Penta5Catalog, MaxPenta5s)
    /\ penta6s \in DistinctSeqsUpTo(Penta6Catalog, MaxPenta6s)
    /\ Len(tets) + Len(hexas) + Len(penta5s) + Len(penta6s) <= MaxElements
    /\ CodecFresh
    /\ FacesFresh

FacesNext ==
    \/ FacesBegin
    \/ FacesTet
    \/ FacesTetsEnd
    \/ FacesHexa
    \/ FacesHexasEnd
    \/ FacesPenta5
    \/ FacesPenta5sEnd
    \/ FacesPenta6
    \/ FacesPenta6sEnd
    \/ FacesClassify
    \/ FacesReturn

SpecFaces == FacesInit /\ [][FacesNext]_vars

\* The enumeration loops alone (lines 705-867), up to the start of the loop
\* over the triangular keys
EnumNext ==
    \/ FacesBegin
    \/ FacesTet
    \/ FacesTetsEnd
    \/ FacesHexa
    \/ FacesHexasEnd
    \/ FacesPenta5
    \/ FacesPenta5sEnd
    \/ FacesPenta6
    \/ FacesPenta6sEnd

SpecEnum == FacesInit /\ [][EnumNext]_vars

-----------------------------------------------------------------------------
(* SpecRoundTrip: on each file of a bounded set, the calls                 *)
(*   m = UGRID(); m.read_ugrid(x); m.write_ugrid(out);                     *)
(*   m = UGRID(); m.read_ugrid(out)                                        *)
(* by a caller that goes on after an exception                             *)

\* each of ntris, nquads, ntets, npenta5s, npenta6s, nhexas is 0 or one
\* number of 1..MaxCount, the same for the kinds that are present
MaxCount == 2

\* nnodes: no node, the nodes of a tetrahedron
NodeCounts == {0, 4}

\* the contents of a file: 0 is a mesh of small node ids, a larger seed the
\* bytes of BytePattern from that offset on
MaxSeed == 1

CodecTags == {<<"l", "b", "4">>, <<"b", "4">>, <<"l", "b", "8">>, <<"b", "8">>}

\* bytes that give, at some alignment and byte order, zero, small, large
\* and negative integers, infinities, quiet and signaling NaNs
BytePattern == <<63, 1, 0, 128, 127, 0, 0, 192, 255, 127, 128, 0, 1, 127, 244>>

\* the four bytes of a count of 0..255
count_bytes(endian, c) == IF endian = "<" THEN <<c, 0, 0, 0>> ELSE <<0, 0, 0, c>>

Headers ==
    {<<nn>> \o [k \in 1..6 |-> m * present[k]] :
        nn \in NodeCounts, present \in [1..6 -> {0, 1}], m \in 1..MaxCount}

RECURSIVE payload_from(_, _, _, _, _)
\* the bytes of block i and of those after it, acc being the bytes before
payload_from(fmt, c, seed, i, acc) ==
    IF i > Len(read_blocks) THEN acc
    ELSE
        LET block == read_blocks[i]
            size == itemsize(block, fmt)
            nwords == nrows(block, c) * ncols(block)
            \* a row of node ids is 1, 2, 3, ..., and 1, 1, 2, ... from the
            \* second row of a surface block on
            mesh_word(k) ==
                LET row == ((k - 1) \div ncols(block)) + 1
                    col == ((k - 1) % ncols(block)) + 1
                IN  IF block = "nodes" THEN [j \in 1..size |-> 60 + ((k + j) % 7)]
                    ELSE IF block \in {"tris", "quads"} /\ row > 1 /\ col > 1
                    THEN count_bytes(fmt.endian, col - 1)
                    ELSE count_bytes(fmt.endian, col)
            data == IF seed = 0
                    THEN join([k \in 1..nwords |-> mesh_word(k)])
                    ELSE [j \in 1..(nwords * size) |->
                            BytePattern[((seed + Len(acc) + j) % Len(BytePattern)) + 1]]
        IN  payload_from(fmt, c, seed, i + 1, acc \o data)

\* a file whose length is what its header declares
make_file(fmt, c, seed) ==
    payload_from(fmt, c, seed, 1, join([k \in 1..7 |-> count_bytes(fmt.endian, c[k])]))

\* the file as it is, without its last byte, with one byte more, and its
\* first half
Damages == {"none", "short", "long", "half"}

damaged(f, d) ==
    CASE d = "none" -> f
      [] d = "short" -> SubSeq(f, 1, Len(f) - 1)
      [] d = "long" -> Append(f, 0)
      [] d = "half" -> SubSeq(f, 1, Len(f) \div 2)

RoundTripInit ==
    /\ NameFresh
    /\ VolFresh
    /\ FacesFresh
    /\ n = 0
    /\ nodes = <<>>
    /\ tris = <<>>
    /\ quads = <<>>
    /\ pids = <<>>
    /\ file_tag \in CodecTags
    /\ out_tag = <<>>
    /\ \E c \in Headers, seed \in 0..MaxSeed, d \in Damages :
         LET fmt == determine_dytpe_nfloat_endian_from_ugrid_filename(file_name("x")).value
         IN  ugrid_file = damaged(make_file(fmt, c, seed), d)
    /\ out_files = EmptyDict
    /\ calls = 0
    /\ last_call = [op |-> "none", file |-> "none", exc |-> "none"]
    /\ read_log = <<>>
    /\ write_log = <<>>
    /\ mesh_from = "none"
    /\ wrote = [mesh |-> EmptyArrays, from |-> "none"]
    /\ OpsFresh

\* m.read_ugrid(x) on the first object; m.write_ugrid(out), the name with any
\* of the tags; m = UGRID(); m.read_ugrid(out) on the second object
RoundTripNext ==
    \/ calls = 0 /\ read_ugrid("x")
    \/ calls = 1 /\ \E out_format \in CodecTags : write_ugrid(out_format)
    \/ calls = 2 /\ UGRID_init
    \/ calls = 2 /\ last_call.op = "UGRID" /\ read_ugrid("out")

SpecRoundTrip == RoundTripInit /\ [][RoundTripNext]_vars

\* the calls of read_ugrid on one object
MaxReads == 2

\* SpecReread: read_ugrid(x) called again and again on one object
Reread ==
    /\ calls < MaxReads
    /\ read_ugrid("x")

SpecReread == RoundTripInit /\ [][Reread]_vars

-----------------------------------------------------------------------------
(* Objects populated by direct assignment, and the specifications that     *)
(* call their methods                                                      *)

\* the elements of a mesh
MaxOpsElements == 2

\* the patch ids are 1..MaxPid
MaxPid == 2

\* nnodes: none, and the nodes of a triangle, a tetrahedron, a pyramid, a
\* hexahedron
OpsNodeCounts == {0, 3, 4, 5, 8}

\* the format tags of the names write_ugrid is given: the width of the nodes
\* of a populated object (float32) and the other width
OpsTags == {<<"b", "4">>, <<"l", "b", "8">>}

\* rows of each kind, some with a node id twice, one beyond four nodes
ElementCatalog ==
    {<<"tris", <<1, 2, 3>>>>, <<"tris", <<1, 1, 2>>>>,
     <<"quads", <<1, 2, 3, 4>>>>, <<"quads", <<1, 2, 2, 3>>>>,
     <<"tets", <<1, 2, 3, 4>>>>, <<"tets", <<2, 3, 4, 5>>>>, <<"tets", <<1, 2, 2, 3>>>>,
     <<"penta5s", <<1, 2, 3, 4, 5>>>>, <<"penta5s", <<1, 2, 3, 4, 4>>>>,
     <<"penta6s", <<1, 2, 3, 4, 5, 6>>>>,
     <<"hexas", <<1, 2, 3, 4, 5, 6, 7, 8>>>>}

\* the rows of one kind among the elements es, in their order
rows_of(kind, es) ==
    LET idx == SortedKeys({i \in DOMAIN es : es[i][1] = kind})
    IN  [j \in DOMAIN idx |-> es[idx[j]][2]]

\* the arrays of nn nodes at the origin (float32), the elements es and the
\* patch ids ps
mesh_of(nn, es, ps) ==
    [nodes |-> [i \in 1..nn |-> [j \in 1..3 |-> <<0, 0, 0, 0>>]],
     tris |-> rows_of("tris", es), quads |-> rows_of("quads", es), pids |-> ps,
     tets |-> rows_of("tets", es), penta5s |-> rows_of("penta5s", es),
     penta6s |-> rows_of("penta6s", es), hexas |-> rows_of("hexas", es)]

\* a new object whose arrays were assigned from one of the meshes, a tag
\* lookup among tags, no call made
OpsInit(meshes, tags) ==
    /\ NameFresh
    /\ FacesFresh
    /\ \E m \in meshes :
        /\ nodes = m.nodes
        /\ tris = m.tris
        /\ quads = m.quads
        /\ pids = m.pids
        /\ tets = m.tets
        /\ penta5s = m.penta5s
        /\ penta6s = m.penta6s
        /\ hexas = m.hexas
        /\ assigned = m
    /\ n = 0
    /\ file_tag = <<"b", "4">>
    /\ out_tag = <<>>
    /\ ugrid_file = <<>>
    /\ out_files = EmptyDict
    /\ calls = 0
    /\ last_call = [op |-> "none", file |-> "none", exc |-> "none"]
    /\ read_log = <<>>
    /\ write_log = <<>>
    /\ mesh_from = "none"
    /\ wrote = [mesh |-> EmptyArrays, from |-> "none"]
    /\ returned = NoReturn
    /\ checked = FALSE
    /\ tag_data \in tags
    /\ skin = NoSkin
    /\ isort = <<>>
    /\ bdf_file = <<>>
    /\ boundary_file = NoBoundaryFile

\* SpecChecks: one call of check_hanging_nodes (strict or not), skin_solids
\* or write_ugrid on a populated object
CheckMeshes ==
    UNION {{mesh_of(nn, es, [i \in 1..np |-> 1]) :
               np \in {k \in 0..MaxOpsElements :
                          LET nshells == Len(rows_of("tris", es)) + Len(rows_of("quads", es))
                          IN  k \in {nshells - 1, nshells}}} :
              nn \in OpsNodeCounts, es \in SeqsUpTo(ElementCatalog, MaxOpsElements)}

ChecksInit == OpsInit(CheckMeshes, {EmptyDict})

ChecksNext ==
    \/ calls = 0 /\ check_hanging_nodes_call
    \/ calls = 0 /\ skin_solids_call
    \/ calls = 0 /\ \E out_format \in OpsTags : write_ugrid(out_format)

SpecChecks == ChecksInit /\ [][ChecksNext]_vars

\* the tag file as TagReader.read_tag_filename (surf_reader, outside this
\* source) returns it: a name for some of the patch ids
TagLookups == {[k \in D |-> <<"patch", k>>] : D \in SUBSET (1..MaxPid)}

\* SpecMain: the conversion run of main() -- UGRID(), read_ugrid, then
\* write_foam, which is _write_boundary and _write_faces
MainInit ==
    /\ NameFresh
    /\ VolFresh
    /\ FacesFresh
    /\ n = 0
    /\ nodes = <<>>
    /\ tris = <<>>
    /\ quads = <<>>
    /\ pids = <<>>
    /\ file_tag = <<"b", "8">>
    /\ out_tag = <<>>
    /\ \E c \in Headers, d \in {"none", "short"} :
         LET fmt == determine_dytpe_nfloat_endian_from_ugrid_filename(file_name("x")).value
         IN  ugrid_file = damaged(make_file(fmt, c, 0), d)
    /\ out_files = EmptyDict
    /\ calls = 0
    /\ last_call = [op |-> "none", file |-> "none", exc |-> "none"]
    /\ read_log = <<>>
    /\ write_log = <<>>
    /\ mesh_from = "none"
    /\ wrote = [mesh |-> EmptyArrays, from |-> "none"]
    /\ assigned = EmptyArrays
    /\ returned = NoReturn
    /\ checked = FALSE
    /\ tag_data \in TagLookups
    /\ skin = NoSkin
    /\ isort = <<>>
    /\ bdf_file = <<>>
    /\ boundary_file = NoBoundaryFile

\* line 536, self._write_faces(faces_filename + '2'), is reached
MainFacesReached ==
    /\ last_call.op = "_write_boundary"
    /\ last_call.exc = "none"

\* line 1028, ugrid_model.read_ugrid(ugrid_filename); line 535,
\* self._write_boundary(boundary_filename + '2', tag_filename), when the read
\* has returned; then the steps of _write_faces
MainNext ==
    \/ calls = 0 /\ read_ugrid("x")
    \/ last_call.op = "read_ugrid" /\ last_call.exc = "none" /\ write_boundary_call
    \/ MainFacesReached /\ FacesBegin
    \/ MainFacesReached /\ FacesTet
    \/ MainFacesReached /\ FacesTetsEnd
    \/ MainFacesReached /\ FacesHexa
    \/ MainFacesReached /\ FacesHexasEnd
    \/ MainFacesReached /\ FacesPenta5
    \/ MainFacesReached /\ FacesPenta5sEnd
    \/ MainFacesReached /\ FacesPenta6
    \/ MainFacesReached /\ FacesPenta6sEnd
    \/ MainFacesReached /\ FacesClassify
    \/ MainFacesReached /\ FacesReturn

SpecMain == MainInit /\ [][MainNext]_vars

\* the calls made on one object
MaxOpsCalls == 2

\* surface rows, told apart by their nodes
SurfaceCatalog == {<<"tris", <<1, 2, 3>>>>, <<"tris", <<2, 3, 4>>>>, <<"quads", <<1, 2, 3, 4>>>>}

\* the nodes and the volume elements: none, and meshes whose volume
\* elements refer to every node
VolumeChoices ==
    {[nnodes |-> 4, vols |-> <<>>],
     [nnodes |-> 4, vols |-> << <<"tets", <<1, 2, 3, 4>>>> >>],
     [nnodes |-> 8, vols |-> << <<"tets", <<1, 2, 3, 4>>>>, <<"hexas", <<1, 2, 3, 4, 5, 6, 7, 8>>>> >>],
     [nnodes |-> 6, vols |-> << <<"penta5s", <<1, 2, 3, 4, 5>>>>, <<"penta6s", <<1, 2, 3, 4, 5, 6>>>> >>]}

\* meshes with a patch id of 1..MaxPid per surface element
OpsMeshes ==
    UNION {{mesh_of(v.nnodes, s \o v.vols, ps) : ps \in [DOMAIN s -> 1..MaxPid]} :
              s \in SeqsUpTo(SurfaceCatalog, MaxOpsElements), v \in VolumeChoices}

\* SpecOps: the methods of a populated object, called in any order, with a
\* tag file that names every patch
OpsSpecInit == OpsInit(OpsMeshes, {td \in TagLookups : DOMAIN td = 1..MaxPid})

\* no call is running and one more can be made
CanCall ==
    /\ faces_pc \in {"call", "done", "raised"}
    /\ calls < MaxOpsCalls

OpsCheck == CanCall /\ check_hanging_nodes_call

OpsWriteUgrid == CanCall /\ \E out_format \in OpsTags : write_ugrid(out_format)

OpsWriteBdf == CanCall /\ write_bdf

OpsWriteBoundary == CanCall /\ write_boundary_call

OpsNext ==
    \/ OpsCheck
    \/ OpsWriteUgrid
    \/ OpsWriteBdf
    \/ OpsWriteBoundary
    \/ FacesBegin
    \/ FacesTet
    \/ FacesTetsEnd
    \/ FacesHexa
    \/ FacesHexasEnd
    \/ FacesPenta5
    \/ FacesPenta5sEnd
    \/ FacesPenta6
    \/ FacesPenta6sEnd
    \/ FacesClassify
    \/ FacesReturn

SpecOps == OpsSpecInit /\ [][OpsNext]_vars

\* SpecBoundary: _write_boundary and write_bdf on a populated object, in any
\* order, with a tag file that names some of the patches
BoundaryInit == OpsInit(OpsMeshes, TagLookups)

BoundaryNext ==
    \/ OpsWriteBoundary
    \/ OpsWriteBdf

SpecBoundary == BoundaryInit /\ [][BoundaryNext]_vars

-----------------------------------------------------------------------------
(* Claims about the face extraction (SpecFaces, SpecEnum)                  *)

TriKeys == DOMAIN tri_face_to_eids
QuadKeys == DOMAIN quad_face_to_eids
FaceKeys == TriKeys \cup QuadKeys
Contributors(k) == IF Len(k) = 3 THEN tri_face_to_eids[k] ELSE quad_face_to_eids[k]
InteriorKeys == {k \in FaceKeys : Len(Contributors(k)) = 2}
BoundaryKeys == {k \in FaceKeys : Len(Contributors(k)) = 1}
Manifold == \A k \in FaceKeys : Len(Contributors(k)) \in {1, 2}
EnumerationDone == faces_pc \in {"classify", "done"}
Vertices0(e) == {v - 1 : v \in Range(e)}
TriKeysOf(x) == {k \in TriKeys : x \in Range(tri_face_to_eids[k])}
QuadKeysOf(x) == {k \in QuadKeys : x \in Range(quad_face_to_eids[k])}

\* C2 (as claimed): every key with exactly two contributors to which the
\* last loop assigned an owner and a neighbor has owner < neighbor.
C2_OwnerBelowNeighbor ==
    \A k \in DOMAIN classified :
        (Len(tri_face_to_eids[k]) = 2 /\ classified[k].branch = "tets") =>
            classified[k].owner < classified[k].neighbor

\* C3 (as claimed): in a run that completes, every canonical key, triangular
\* or quadrilateral, has one or two contributors.
C3_CompletedIsManifold == (faces_pc = "done") => Manifold

\* C4: once every volume element is enumerated, in a manifold mesh the number
\* of face instances (4 per tetrahedron, 5 per pyramid, 5 per prism, 6 per
\* hexahedron) is twice the number of keys with two contributors plus the
\* number of keys with one.
C4_FaceConservation ==
    (EnumerationDone /\ Manifold) =>
        4 * Len(tets) + 5 * Len(penta5s) + 5 * Len(penta6s) + 6 * Len(hexas)
            = 2 * Cardinality(InteriorKeys) + Cardinality(BoundaryKeys)

\* C4 witness: a manifold mesh of more than one kind with an interior and a
\* boundary face has been enumerated
C4_Witness ==
    /\ EnumerationDone
    /\ Manifold
    /\ InteriorKeys # {}
    /\ BoundaryKeys # {}
    /\ Len(penta5s) > 0
    /\ Len(hexas) > 0

\* C5 (as claimed): when the function returns, every key of either arity is
\* classified: one contributor gives owner = that element and no neighbor,
\* two contributors give owner and neighbor = those two elements.
C5_EveryKeyClassified ==
    (faces_pc = "done") =>
        \A k \in FaceKeys :
            /\ k \in DOMAIN classified
            /\ Len(Contributors(k)) = 1 =>
                 /\ classified[k].owner = Contributors(k)[1]
                 /\ classified[k].neighbor = NoNeighbor
            /\ Len(Contributors(k)) = 2 =>
                 {classified[k].owner, classified[k].neighbor} = Range(Contributors(k))

\* the element id the read order of the kinds (tetrahedra, pyramids, prisms,
\* hexahedra) gives the j-th element of a kind
ReadOrderId(kind, j) ==
    CASE kind = "tets" -> j
      [] kind = "penta5s" -> Len(tets) + j
      [] kind = "penta6s" -> Len(tets) + Len(penta5s) + j
      [] kind = "hexas" -> Len(tets) + Len(penta5s) + Len(penta6s) + j

\* C6 (as claimed): the element ids under which the faces are recorded are
\* 1, 2, ... in the read order of the kinds: every face of the j-th element
\* of a kind is recorded under that element's read-order id.
C6_IdsInReadOrder ==
    EnumerationDone =>
        /\ \A j \in DOMAIN tets :
             \A k \in Range(keys_of(tet_faces(minus_one(tets)[j]))) :
                 ReadOrderId("tets", j) \in Range(tri_face_to_eids[k])
        /\ \A j \in DOMAIN penta5s :
             \A k \in Range(keys_of(penta5_tri_faces(minus_one(penta5s)[j]))) :
                 ReadOrderId("penta5s", j) \in Range(tri_face_to_eids[k])
        /\ \A j \in DOMAIN penta6s :
             \A k \in Range(keys_of(penta6_tri_faces(minus_one(penta6s)[j]))) :
                 ReadOrderId("penta6s", j) \in Range(tri_face_to_eids[k])
        /\ \A j \in DOMAIN hexas :
             \A k \in Range(keys_of(hexa_faces(minus_one(hexas)[j]))) :
                 ReadOrderId("hexas", j) \in Range(quad_face_to_eids[k])

\* the element id _write_faces gives the j-th element of a kind: the kinds
\* are enumerated tetrahedra, hexahedra, pyramids, prisms
EnumOrderId(kind, j) ==
    CASE kind = "tets" -> j
      [] kind = "hexas" -> Len(tets) + j
      [] kind = "penta5s" -> Len(tets) + Len(hexas) + j
      [] kind = "penta6s" -> Len(tets) + Len(hexas) + Len(penta5s) + j

\* the faces recorded under element id x: ntri triangles and nquad quads,
\* pairwise distinct as vertex sets, on the vertices of e only
TemplateOk(x, e, ntri, nquad) ==
    /\ \A k \in TriKeysOf(x) \cup QuadKeysOf(x) : Range(k) \subseteq Vertices0(e)
    /\ Cardinality(Range(e)) = Len(e) =>
         /\ Cardinality(TriKeysOf(x)) = ntri
         /\ Cardinality(QuadKeysOf(x)) = nquad

\* C7: once every volume element is enumerated, a tetrahedron has
\* contributed 4 triangles, a hexahedron 6 quads, a pyramid 4 triangles and
\* 1 quad, a prism 2 triangles and 3 quads; every face uses only vertices of
\* its element, and the faces of an element with distinct vertices are
\* pairwise distinct vertex sets.
C7_FaceTemplates ==
    EnumerationDone =>
        /\ \A j \in DOMAIN tets : TemplateOk(EnumOrderId("tets", j), tets[j], 4, 0)
        /\ \A j \in DOMAIN hexas : TemplateOk(EnumOrderId("hexas", j), hexas[j], 0, 6)
        /\ \A j \in DOMAIN penta5s :
             TemplateOk(EnumOrderId("penta5s", j), penta5s[j], 4, 1)
        /\ \A j \in DOMAIN penta6s :
             TemplateOk(EnumOrderId("penta6s", j), penta6s[j], 2, 3)

\* C7 witness: a hexahedron, a pyramid and a prism have been enumerated
C7_Witness ==
    /\ EnumerationDone
    /\ Len(hexas) = 1
    /\ Len(penta5s) = 1
    /\ Len(penta6s) = 1
    /\ Cardinality(QuadKeysOf(1)) = 6
    /\ Cardinality(TriKeysOf(3)) = 2

TwoCubes ==
    /\ tets = <<>>
    /\ penta5s = <<>>
    /\ penta6s = <<>>
    /\ hexas = << <<1, 2, 3, 4, 5, 6, 7, 8>>, <<5, 6, 7, 8, 9, 10, 11, 12>> >>

\* C8 (as claimed): for the two cubes the function ends with exactly one
\* interior quad face, of owner 1 and neighbor 2, ten boundary quad faces and
\* no triangular face.
C8_TwoCubes ==
    (TwoCubes /\ faces_pc = "done") =>
        /\ TriKeys = {}
        /\ Cardinality({k \in QuadKeys : Len(quad_face_to_eids[k]) = 1}) = 10
        /\ Cardinality({k \in QuadKeys : Len(quad_face_to_eids[k]) = 2}) = 1
        /\ \A k \in QuadKeys :
             /\ k \in DOMAIN classified
             /\ Len(quad_face_to_eids[k]) = 2 =>
                  /\ classified[k].owner = 1
                  /\ classified[k].neighbor = 2
             /\ Len(quad_face_to_eids[k]) = 1 =>
                  classified[k].neighbor = NoNeighbor

-----------------------------------------------------------------------------
(* Claims about the filename parser (SpecName)                             *)

name_parts == split_dot(basename(ugrid_filename))
ThreeParts(f) == Len(split_dot(basename(f))) = 3
FailsOn(f) == determine_dytpe_nfloat_endian_from_ugrid_filename(f).exc # "none"

\* C9 (as amended): for a filename <name>.<tag>.<ext> the parser returns
\* exactly when ext is ugrid and the tag holds a precision digit and a 'b';
\* the width is 8 when the tag holds '8' and 4 when it holds '4' and no '8',
\* the byte order little for 'lb' and big for a 'b' without 'lb', and nothing
\* outside {4,8} x {'<','>'} is returned; it fails with AssertionError when
\* the extension is not ugrid and with NotImplementedError when the digit or
\* the marker is missing: two error kinds, not one.
C9_Descriptor ==
    (name_pc # "call" /\ Len(name_parts) = 3) =>
        LET tag == name_parts[2]
            ext == name_parts[3]
            digit == HasChar(tag, "8") \/ HasChar(tag, "4")
            marker == HasChar(tag, "b")
        IN  /\ (name_pc = "returned") <=> (ext = ext_ugrid /\ digit /\ marker)
            /\ name_pc = "returned" =>
                 /\ name_exc = "none"
                 /\ descriptor.nfloat = (IF HasChar(tag, "8") THEN 8 ELSE 4)
                 /\ descriptor.endian = (IF HasPair(tag, "l", "b") THEN "<" ELSE ">")
                 /\ descriptor.nfloat \in {4, 8}
                 /\ descriptor.endian \in {"<", ">"}
                 /\ (descriptor.nfloat = 8) <=>
                      (descriptor.ndarray_float = "float64" /\ descriptor.float_fmt = "d")
                 /\ (descriptor.nfloat = 4) <=>
                      (descriptor.ndarray_float = "float32" /\ descriptor.float_fmt = "f")
            /\ name_pc = "raised" =>
                 /\ descriptor = NoValue
                 /\ name_exc = (IF ext # ext_ugrid THEN "AssertionError"
                                ELSE "NotImplementedError")

\* C9 witness: x.b.ugrid (no precision digit) has been parsed and rejected
C9_Witness ==
    /\ ugrid_filename = <<"x", ".", "b", ".", "u", "g", "r", "i", "d">>
    /\ name_pc = "raised"
    /\ name_exc = "NotImplementedError"

\* C9 (as claimed): every failure on a three-part filename (wrong extension,
\* no precision digit, no endianness marker) is of one and the same kind
C9_OneErrorKind ==
    (name_pc = "raised" /\ ThreeParts(ugrid_filename)) =>
        \A g \in Filenames :
            (ThreeParts(g) /\ FailsOn(g)) =>
                determine_dytpe_nfloat_endian_from_ugrid_filename(g).exc = name_exc

-----------------------------------------------------------------------------
(* Claims about read_ugrid and write_ugrid                                 *)

\* the format the name of the file x stands for
file_fmt == determine_dytpe_nfloat_endian_from_ugrid_filename(file_name("x")).value

\* the format the name of the file out stands for
out_fmt == determine_dytpe_nfloat_endian_from_ugrid_filename(file_name("out")).value

\* the seven counts at the head of a file of 28 bytes or more in a format
counts_in(f, fmt) == [k \in 1..7 |-> unpack_i(fmt.endian, word(f, 4, k))]

\* the name and the bytes of each block of the UGRID layout, in its order,
\* for the counts c = <<nnodes, ntri, nquad, ntet, npyr, nprism, nhex>>
LayoutIn(c, fmt) ==
    <<<<"header", 7 * 4>>,
      <<"nodes", c[1] * 3 * fmt.nfloat>>,
      <<"tris", c[2] * 3 * 4>>,
      <<"quads", c[3] * 4 * 4>>,
      <<"pids", (c[2] + c[3]) * 4>>,
      <<"tets", c[4] * 4 * 4>>,
      <<"penta5s", c[5] * 5 * 4>>,
      <<"penta6s", c[6] * 6 * 4>>,
      <<"hexas", c[7] * 8 * 4>>>>

\* the counts and the layout of the file x
header_counts(f) == counts_in(f, file_fmt)
Layout(c) == LayoutIn(c, file_fmt)

RECURSIVE BytesBefore(_, _)
\* the bytes of the first i - 1 blocks of a layout
BytesBefore(layout, i) ==
    IF i <= 1 THEN 0 ELSE BytesBefore(layout, i - 1) + layout[i - 1][2]

\* block, offset, bytes: the accesses that go through a layout in order
Accesses(layout) ==
    [i \in DOMAIN layout |-> <<layout[i][1], BytesBefore(layout, i), layout[i][2]>>]

IsPrefix(s, t) == Len(s) <= Len(t) /\ s = SubSeq(t, 1, Len(s))

\* the length of the file is the one its header declares
WellFormed(f) ==
    /\ Len(f) >= 28
    /\ \A k \in 1..7 : header_counts(f)[k] >= 0
    /\ Len(f) = BytesBefore(Layout(header_counts(f)), 10)

\* the float words of the node block of a well-formed file
NodeWords(f) ==
    {msb_first(file_fmt.endian, word(SubSeq(f, 29, Len(f)), file_fmt.nfloat, k)) :
        k \in 1..(header_counts(f)[1] * 3)}

HasSurface(c) == c[2] + c[3] > 0
HasVolume(c) == c[4] + c[5] + c[6] + c[7] > 0

\* the counts of the arrays of a mesh
CountsOf(m) ==
    <<Len(m.nodes), Len(m.tris), Len(m.quads), Len(m.tets), Len(m.penta5s),
      Len(m.penta6s), Len(m.hexas)>>

\* the file the last read_ugrid was given is there: x always, out once a
\* write_ugrid has opened it
FileThere == last_call.file = "x" \/ out_exists

\* the file the last read_ugrid was given, and the format of its name
FileRead == IF last_call.file = "x" THEN ugrid_file ELSE f_ugrid
FmtRead == IF last_call.file = "x" THEN file_fmt ELSE out_fmt

WriteEnded == calls >= 2
ReadBackEnded == calls = 3

\* write_ugrid was given the tag of the name of x
SameTag == out_tag = file_tag

\* C1 (as amended) Round trip: for a well-formed x that declares at least
\* one surface element and at least one volume element and whose node block
\* holds no signaling NaN, read_ugrid(x) on a new object followed by
\* write_ugrid with the same tag leaves a file byte-identical to x, complete
\* even when write_ugrid then raises from check_hanging_nodes, and read_ugrid
\* of that file on a new object returns with the arrays that were written;
\* for a well-formed x without surface or without volume elements
\* write_ugrid raises AssertionError and leaves no file, and read_ugrid of
\* the name of that file on a new object raises IOError, reads nothing and
\* leaves the object without arrays.
C1_RoundTrip ==
    WellFormed(ugrid_file) =>
        LET c == header_counts(ugrid_file)
            writable == HasSurface(c) /\ HasVolume(c)
            plain == \A w \in NodeWords(ugrid_file) : ~is_snan(w)
        IN  /\ (calls >= 1 /\ (calls = 3 => SameTag)) =>
                 /\ mesh_from = IF calls = 3 THEN (IF writable THEN "out" ELSE "none")
                                ELSE IF last_call.op = "UGRID" THEN "none" ELSE "x"
            /\ (calls = 1) => (last_call.exc = "none" /\ CountsOf(self_arrays) = c)
            /\ (WriteEnded /\ SameTag /\ writable /\ plain) =>
                 /\ out_exists
                 /\ f_ugrid = ugrid_file
                 /\ wrote.from = "x"
            /\ (WriteEnded /\ SameTag /\ writable /\ last_call.op = "write_ugrid") =>
                 last_call.exc \in {"none", "RuntimeError", "AssertionError"}
            /\ (WriteEnded /\ ~writable) =>
                 /\ ~out_exists
                 /\ last_call.op = "write_ugrid" => last_call.exc = "AssertionError"
            /\ (ReadBackEnded /\ SameTag /\ writable /\ plain) =>
                 /\ last_call = [op |-> "read_ugrid", file |-> "out", exc |-> "none"]
                 /\ self_arrays = wrote.mesh
            /\ (ReadBackEnded /\ ~writable) =>
                 /\ last_call = [op |-> "read_ugrid", file |-> "out", exc |-> "IOError"]
                 /\ read_log = <<>>
                 /\ n = 0
                 /\ self_arrays = EmptyArrays
                 /\ mesh_from = "none"

\* a little-endian file of two triangles, two tetrahedra and four nodes has
\* gone through read_ugrid, write_ugrid and read_ugrid unchanged
C1_Witness ==
    /\ WellFormed(ugrid_file)
    /\ ReadBackEnded
    /\ last_call = [op |-> "read_ugrid", file |-> "out", exc |-> "none"]
    /\ file_fmt.endian = "<"
    /\ SameTag
    /\ header_counts(ugrid_file) = <<4, 2, 0, 2, 0, 0, 0>>
    /\ f_ugrid = ugrid_file
    /\ tets = <<<<1, 2, 3, 4>>, <<1, 2, 3, 4>>>>
    /\ self_arrays = wrote.mesh

\* C1 (as stated) Round trip: for every well-formed x, read_ugrid(x)
\* followed by write_ugrid with the same tag produces a file byte-identical
\* to x.
C1_RoundTripAll ==
    (WellFormed(ugrid_file) /\ WriteEnded /\ SameTag) => (out_exists /\ f_ugrid = ugrid_file)

\* C10 Block order: read_ugrid reads and write_ugrid writes the header, the
\* nodes, the triangles, the quads, the patch ids, the tetrahedra, the
\* pyramids, the prisms and the hexahedra in this order, each block at the
\* offset where the one before ends and of count x arity words (3 floats a
\* node, ntri + nquad patch ids), whatever counts are zero; a read that
\* raises stops within this order, and so does a write that raises while it
\* packs a block; write_ugrid leaves out only blocks of no row.  The floats
\* of the nodes have the width of the tag of the file.
C10_BlockOrder ==
    /\ (last_call.op = "read_ugrid" /\ Len(read_log) > 1) =>
         LET expected == Accesses(LayoutIn(counts_in(FileRead, FmtRead), FmtRead))
         IN  /\ IsPrefix(read_log, expected)
             /\ last_call.exc = "none" => read_log = expected
    /\ (write_log # <<>>) =>
         LET layout == LayoutIn(CountsOf(wrote.mesh), out_fmt)
             expected == Accesses(layout)
             kept == {i \in DOMAIN layout : layout[i][1] \in {"header", "nodes", "pids"}
                                             \/ layout[i][2] > 0}
             packing == last_call.op = "write_ugrid"
                            /\ last_call.exc \in {"OverflowError", "struct.error"}
         IN  /\ Len(write_log) <= Cardinality(kept)
             /\ \A j \in DOMAIN write_log : \E i \in kept :
                    /\ write_log[j] = expected[i]
                    /\ j = Cardinality({k \in kept : k <= i})
             /\ (last_call.op = "write_ugrid" /\ ~packing) =>
                    /\ Len(write_log) = Cardinality(kept)
                    /\ Len(f_ugrid) = BytesBefore(layout, 10)

\* a file with quads, pyramids and hexahedra and without triangles,
\* tetrahedra and prisms has been read in nine reads and written in six
C10_Witness ==
    /\ calls = 2
    /\ last_call.op = "write_ugrid"
    /\ CountsOf(self_arrays) = <<4, 0, 2, 0, 2, 0, 2>>
    /\ Len(read_log) = 9
    /\ [j \in DOMAIN write_log |-> write_log[j][1]]
         = <<"header", "nodes", "quads", "pids", "penta5s", "hexas">>
    /\ read_log[5] = <<"pids", 28 + 4 * 3 * file_fmt.nfloat + 2 * 16, 8>>
    /\ out_fmt.nfloat # file_fmt.nfloat
    /\ write_log[2] = <<"nodes", 28, 4 * 3 * out_fmt.nfloat>>

\* a file with a whole header of counts that are not negative, in the format
\* of the last read
HasHeader(f) == Len(f) >= 28 /\ \A k \in 1..7 : counts_in(f, FmtRead)[k] >= 0

\* the blocks of the layout of f that end past the end of f
ShortBlocks(f) ==
    LET layout == LayoutIn(counts_in(f, FmtRead), FmtRead)
    IN  {i \in DOMAIN layout : BytesBefore(layout, i + 1) > Len(f)}

\* the index in the layout of the first block that is short, 1 (the header)
\* when the header itself is
FirstShort(f) ==
    IF Len(f) < 28 THEN 1
    ELSE CHOOSE i \in ShortBlocks(f) : \A j \in ShortBlocks(f) : i <= j

IsShort(f) == Len(f) < 28 \/ (HasHeader(f) /\ ShortBlocks(f) # {})

\* C11 Short read: when the read of a block (the header, the nodes, a
\* connectivity block, the patch ids) gives fewer bytes than the block
\* declares, read_ugrid raises struct.error at that block, the first short
\* one, and reads nothing after it; struct.error is raised in no other case
\* and is not the AssertionError of the final length check; the arrays of
\* the object are not assigned.  A file that is not there is not a short
\* file: its open raises IOError and no block is read.
C11_ShortRead ==
    (last_call.op = "read_ugrid") =>
        /\ (last_call.exc = "struct.error") <=> (FileThere /\ IsShort(FileRead))
        /\ (last_call.exc = "IOError") <=> ~FileThere
        /\ ~FileThere => read_log = <<>>
        /\ (FileThere /\ IsShort(FileRead)) =>
             /\ Len(read_log) = FirstShort(FileRead)
             /\ read_log[Len(read_log)][1] = (<<"header">> \o read_blocks)[FirstShort(FileRead)]
             /\ read_log[Len(read_log)][2] + read_log[Len(read_log)][3] > Len(FileRead)
             /\ self_arrays = EmptyArrays
             /\ mesh_from = "none"

\* a file cut in its block of quads: the header, the nodes, the triangles
\* were read, the read of the quads raised and the object holds no array
C11_Witness ==
    /\ last_call = [op |-> "read_ugrid", file |-> "x", exc |-> "struct.error"]
    /\ Len(read_log) = 4
    /\ read_log[4][1] = "quads"
    /\ read_log[2][3] > 0
    /\ read_log[3][3] > 0
    /\ self_arrays = EmptyArrays

\* C12 Length check: when the bytes consumed by all declared blocks differ
\* from the length of the file (bytes are left after the hexahedra),
\* read_ugrid fails instead of returning normally.
C12_LengthCheck ==
    (last_call.op = "read_ugrid" /\ HasHeader(FileRead)
        /\ Len(FileRead) # BytesBefore(LayoutIn(counts_in(FileRead, FmtRead), FmtRead), 10))
    => last_call.exc # "none"

\* C13 Encode precondition: write_ugrid on a mesh without surface elements
\* or without volume elements raises AssertionError before the file is
\* opened: no file exists after the call and nothing was written; on any
\* other mesh the file is written.
C13_EncodePrecondition ==
    (last_call.op = "write_ugrid") =>
        LET c == CountsOf(self_arrays)
        IN  IF HasSurface(c) /\ HasVolume(c)
            THEN out_exists /\ write_log # <<>>
            ELSE /\ last_call.exc = "AssertionError"
                 /\ ~out_exists
                 /\ f_ugrid = <<>>
                 /\ write_log = <<>>

\* write_ugrid raised on a mesh of nodes and surface elements that
\* read_ugrid had decoded from a well-formed file without volume elements
C13_Witness ==
    /\ last_call = [op |-> "write_ugrid", file |-> "out", exc |-> "AssertionError"]
    /\ mesh_from = "x"
    /\ WellFormed(ugrid_file)
    /\ Len(nodes) = 4
    /\ Len(tris) = 2
    /\ Len(quads) = 2
    /\ ~HasVolume(CountsOf(self_arrays))
    /\ ~out_exists

-----------------------------------------------------------------------------
(* Claims about check_hanging_nodes                                        *)

\* the node ids the volume elements refer to
Referenced ==
    unique(tets) \cup unique(penta5s) \cup unique(penta6s) \cup unique(hexas)

AllNodes == 1..Len(nodes)

\* the ids of one of the two sets only, ascending
SymmetricDifference == SortedKeys((AllNodes \ Referenced) \cup (Referenced \ AllNodes))

CheckEnded == last_call.op = "check_hanging_nodes"

\* the rows of the object with a node id twice, quads apart
DegenerateRows(m) == SelectSeq(m.tris \o m.tets \o m.penta5s \o m.penta6s \o m.hexas, is_degenerate)

\* C14 Hanging-node check: on a mesh with volume elements and no element
\* with a node id twice, whenever a node is referenced by no volume element
\* or an id outside 1..nnodes is referenced, check_hanging_nodes reports the
\* symmetric difference of the two sets: it fails with it under the strict
\* policy and returns it without failing under the other.
C14_HangingNodes ==
    (/\ CheckEnded
     /\ HasVolume(CountsOf(self_arrays))
     /\ DegenerateRows(self_arrays) = <<>>
     /\ Referenced # AllNodes) =>
        /\ returned.diff = SymmetricDifference
        /\ returned.stop_on_diff => last_call.exc = "RuntimeError"
        /\ ~returned.stop_on_diff => last_call.exc = "none"

\* C15 (as amended) Degenerate-element check: when a triangle, tetrahedron,
\* pyramid, prism or hexahedron has fewer distinct node ids than its arity
\* (3, 4, 5, 6, 8), check_hanging_nodes does not return normally: it raises
\* AssertionError showing the first such row, in the order triangles,
\* tetrahedra, pyramids, prisms, hexahedra, unless it has raised RuntimeError
\* before (no volume element, or a node count that differs under the strict
\* policy); a quad of fewer than 4 distinct ids is only printed and does
\* not make the check fail.
C15_Degenerate ==
    CheckEnded =>
        LET bad == DegenerateRows(self_arrays)
            badquads == SelectSeq(quads, is_degenerate)
        IN  /\ (bad # <<>>) =>
                 /\ last_call.exc \in {"AssertionError", "RuntimeError"}
                 /\ last_call.exc = "RuntimeError" =>
                      \/ ~HasVolume(CountsOf(self_arrays))
                      \/ (returned.stop_on_diff /\ Len(nodes) # Cardinality(Referenced))
                 /\ last_call.exc = "AssertionError" => returned.row = Head(bad)
            /\ (bad = <<>>) => last_call.exc # "AssertionError"
            /\ (last_call.exc = "none") => returned.printed = badquads

\* a mesh of a sound tetrahedron over its four nodes and a quad with a node
\* twice: the check returned normally and printed the quad
C15_Witness ==
    /\ CheckEnded
    /\ last_call.exc = "none"
    /\ tets = <<<<1, 2, 3, 4>>>>
    /\ quads = <<<<1, 2, 2, 3>>>>
    /\ returned.printed = <<<<1, 2, 2, 3>>>>

\* C15 (as stated) Degenerate-element check: no degenerate element of any
\* kind, quads included, lets the check return normally.
C15_AllKinds ==
    (CheckEnded /\ (DegenerateRows(self_arrays) # <<>> \/ SelectSeq(quads, is_degenerate) # <<>>))
        => last_call.exc # "none"

-----------------------------------------------------------------------------
(* Claims about the conversion run                                         *)

\* C16 Check ordering: in a conversion run face extraction is not started
\* on a mesh that has not passed check_hanging_nodes (the check of hanging
\* nodes and of degenerate elements) since it was decoded.
C16_ChecksBeforeFaces == (faces_pc # "call") => checked

-----------------------------------------------------------------------------
(* Claims about _write_boundary                                            *)

\* the surface elements of a mesh, the triangles before the quads, as
\* write_bdf numbers them
surface_of(m) == m.tris \o m.quads

\* element k of m with its patch id
pair_of(m, k) == <<surface_of(m)[k], m.pids[k]>>

\* the pairs of b are those of a in another order
SamePairing(a, b) ==
    /\ Len(surface_of(a)) = Len(surface_of(b))
    /\ \E q \in [DOMAIN surface_of(a) -> DOMAIN surface_of(a)] :
        /\ \A i, j \in DOMAIN q : i # j => q[i] # q[j]
        /\ \A i \in DOMAIN q : pair_of(b, i) = pair_of(a, q[i])

BoundaryCalled == boundary_file.exists

\* the shell cards of the last bdf file
ShellCards == SelectSeq(bdf_file, LAMBDA c : c[1] \in {"CTRIA3", "CQUAD4"})

\* C17 Patch sort: once _write_boundary has run, every surface element of
\* the object is paired with the patch id it was assigned with, and so is
\* every shell card that write_bdf writes afterwards.
C17_PatchSort ==
    BoundaryCalled =>
        /\ SamePairing(assigned, self_arrays)
        /\ (last_call.op = "write_bdf" /\ last_call.exc = "none") =>
              \A k \in DOMAIN ShellCards :
                  \E i \in DOMAIN surface_of(assigned) :
                      <<ShellCards[k][4], ShellCards[k][3]>> = pair_of(assigned, i)

BoundaryReturned == last_call.op = "_write_boundary" /\ last_call.exc = "none"

\* the distinct patch ids, ascending
PatchIds == SortedKeys(Range(pids))

\* the zero-based indices a patch covers
FaceRange(patch) == patch.startFace..(patch.startFace + patch.nFaces - 1)

\* C18 Patch contiguity: when _write_boundary returns, it has written one
\* patch per distinct patch id, in ascending order of the ids; the patch's
\* startFace is the first index of the id in the sorted pids, its nFaces is
\* the number of surface elements with that id, every entry of the sorted
\* pids in [startFace, startFace + nFaces) is that id, and the ranges are
\* disjoint and cover 0..ntri+nquad-1.
C18_PatchContiguity ==
    BoundaryReturned =>
        LET patches == boundary_file.patches
        IN  /\ pids = sort(assigned.pids)
            /\ Len(patches) = Len(PatchIds)
            /\ boundary_file.nboundaries = Len(PatchIds)
            /\ \A k \in DOMAIN patches :
                /\ patches[k].name = tag_data[PatchIds[k]]
                /\ patches[k].startFace = SetMin({j - 1 : j \in {x \in DOMAIN pids : pids[x] = PatchIds[k]}})
                /\ patches[k].nFaces = Cardinality({j \in DOMAIN assigned.pids : assigned.pids[j] = PatchIds[k]})
                /\ \A f \in FaceRange(patches[k]) : pids[f + 1] = PatchIds[k]
            /\ \A k, l \in DOMAIN patches : k # l => FaceRange(patches[k]) \cap FaceRange(patches[l]) = {}
            /\ UNION {FaceRange(patches[k]) : k \in DOMAIN patches} = 0..(Len(assigned.tris) + Len(assigned.quads) - 1)

\* two surface elements assigned with the patch ids 2, 1: two patches of one
\* face each were written
C18_Witness ==
    /\ BoundaryReturned
    /\ assigned.pids = <<2, 1>>
    /\ Len(boundary_file.patches) = 2
    /\ boundary_file.patches[2].startFace = 1

\* the patch ids without an entry in the tag lookup
UnknownIds == Range(pids) \ DOMAIN tag_data

\* C19 Unknown patch: when a patch id of the object has no entry in the tag
\* lookup, _write_boundary raises KeyError; the patches written are those of
\* the ids below the first unknown one, each under the name the lookup
\* gives, and the file is left without its closing line.
C19_UnknownPatch ==
    (last_call.op = "_write_boundary" /\ UnknownIds # {}) =>
        LET patches == boundary_file.patches
            known == {k \in DOMAIN PatchIds : PatchIds[k] < SetMin(UnknownIds)}
        IN  /\ last_call.exc = "KeyError"
            /\ DOMAIN patches = known
            /\ \A k \in DOMAIN patches :
                /\ PatchIds[k] \in DOMAIN tag_data
                /\ patches[k].name = tag_data[PatchIds[k]]
            /\ ~boundary_file.closed
            /\ isort = <<>>

\* patch ids 1 and 2 with a lookup that names patch 1 only: KeyError after
\* the patch of id 1
C19_Witness ==
    /\ last_call.op = "_write_boundary"
    /\ last_call.exc = "KeyError"
    /\ Range(pids) = {1, 2}
    /\ DOMAIN tag_data = {1}
    /\ Len(boundary_file.patches) = 1

-----------------------------------------------------------------------------
(* Claims about the arrays of a populated object                           *)

\* C20 Mesh immutability: on an object populated by direct assignment,
\* check_hanging_nodes, write_ugrid, write_bdf and _write_faces, in any order
\* and however they end, leave nodes, tris, quads, pids, tets, penta5s,
\* penta6s and hexas as assigned; _write_boundary changes pids alone, into
\* the assigned patch ids in ascending order.
C20_MeshImmutable ==
    /\ [self_arrays EXCEPT !.pids = assigned.pids] = assigned
    /\ pids = IF BoundaryCalled THEN sort(assigned.pids) ELSE assigned.pids

\* patch ids assigned as 2, 1; write_ugrid, then write_bdf, and a complete
\* _write_faces have run: the patch ids are still 2, 1
C20_Witness ==
    /\ assigned.pids = <<2, 1>>
    /\ calls = 2
    /\ out_exists
    /\ last_call = [op |-> "write_bdf", file |-> "bdf", exc |-> "none"]
    /\ faces_pc = "done"
    /\ pids = <<2, 1>>

-----------------------------------------------------------------------------
(* Claims about node references                                            *)

\* the node ids the surface and the volume elements refer to
AllReferences == unique(tris) \cup unique(quads) \cup Referenced

\* C21 Node-reference range: once face extraction has started in a
\* conversion run, every node reference of the decoded surface and volume
\* elements lies in 1..nnodes.
C21_ReferencesInRange == (faces_pc # "call") => AllReferences \subseteq AllNodes

-----------------------------------------------------------------------------
(* Claims about the sizes of the face arrays                               *)

RECURSIVE Appended(_, _)
\* the number of element ids in the lists of d under the keys ks
Appended(d, ks) ==
    IF ks = {} THEN 0
    ELSE LET k == CHOOSE x \in ks : TRUE
         IN  Len(d[k]) + Appended(d, ks \ {k})

\* the rows the four loops give, in the order of the loops
TriRowsExpected ==
    join([i \in DOMAIN tets |-> tet_faces(minus_one(tets)[i])])
    \o join([i \in DOMAIN penta5s |-> penta5_tri_faces(minus_one(penta5s)[i])])
    \o join([i \in DOMAIN penta6s |-> penta6_tri_faces(minus_one(penta6s)[i])])

QuadRowsExpected ==
    join([i \in DOMAIN hexas |-> hexa_faces(minus_one(hexas)[i])])
    \o join([i \in DOMAIN penta5s |-> penta5_quad_faces(minus_one(penta5s)[i])])
    \o join([i \in DOMAIN penta6s |-> penta6_quad_faces(minus_one(penta6s)[i])])

\* the arrays are allocated
Allocated == faces_pc \in {"tets", "hexas", "penta5s", "penta6s", "classify", "done"}

\* C22 Two-pass sizing: the arrays are allocated with 4 ntet + 4 npyr +
\* 2 nprism triangular and 6 nhex + npyr + 3 nprism quadrilateral rows; while
\* they are filled no index is out of bounds, the rows from the cursors on
\* are still unwritten and the element ids appended to the key maps are as
\* many as the rows written; after the four loops the cursors equal the
\* sizes and every row holds the face written to it once, in loop order.
C22_SizingExact ==
    /\ faces_exc # "IndexError"
    /\ Allocated =>
        /\ Len(tri_faces) = 4 * Len(tets) + 4 * Len(penta5s) + 2 * Len(penta6s)
        /\ Len(quad_faces) = 6 * Len(hexas) + Len(penta5s) + 3 * Len(penta6s)
        /\ it <= Len(tri_faces)
        /\ iq <= Len(quad_faces)
        /\ SubSeq(tri_faces, 1, it) = SubSeq(TriRowsExpected, 1, it)
        /\ SubSeq(quad_faces, 1, iq) = SubSeq(QuadRowsExpected, 1, iq)
        /\ \A r \in (it + 1)..Len(tri_faces) : tri_faces[r] = <<0, 0, 0>>
        /\ \A r \in (iq + 1)..Len(quad_faces) : quad_faces[r] = <<0, 0, 0, 0>>
        /\ Appended(tri_face_to_eids, TriKeys) = it
        /\ Appended(quad_face_to_eids, QuadKeys) = iq
    /\ EnumerationDone =>
        /\ it = Len(tri_faces)
        /\ iq = Len(quad_faces)

\* a mesh with a pyramid, a prism and a hexahedron is enumerated: both
\* arrays are full
C22_Witness ==
    /\ EnumerationDone
    /\ Len(penta5s) > 0
    /\ Len(penta6s) > 0
    /\ Len(hexas) > 0
    /\ it = Len(tri_faces)
    /\ iq = Len(quad_faces)
    /\ iq >= 10

-----------------------------------------------------------------------------
(* Claims about skin_solids                                                *)

\* some row of the array a has the vertices of the face f
HasFace(a, f) == \E r \in DOMAIN a : Range(a[r]) = Range(f)

\* C23 Prism faces: when skin_solids has run on a mesh with prisms, its
\* triangle array holds, for every prism, the two triangular faces of the
\* prism template of _write_faces and its quad array the three
\* quadrilateral ones, built from the nodes of the prism.
C23_PrismFaces ==
    (skin.called /\ Len(penta6s) > 0) =>
        \A p \in DOMAIN penta6s :
            /\ \A f \in Range(penta6_tri_faces(penta6s[p])) : HasFace(skin.tris, f)
            /\ \A f \in Range(penta6_quad_faces(penta6s[p])) : HasFace(skin.quads, f)

-----------------------------------------------------------------------------
(* Claims about the last loop of _write_faces                              *)

\* the faces, in template order and zero-based, of the element that the
\* enumeration numbers x
FacesOfId(x) ==
    LET nt == Len(tets)
        nh == Len(hexas)
        n5 == Len(penta5s)
    IN  IF x <= nt THEN tet_faces(minus_one(tets)[x])
        ELSE IF x <= nt + nh THEN hexa_faces(minus_one(hexas)[x - nt])
        ELSE IF x <= nt + nh + n5
        THEN LET e == minus_one(penta5s)[x - nt - nh]
             IN  penta5_tri_faces(e) \o penta5_quad_faces(e)
        ELSE LET e == minus_one(penta6s)[x - nt - nh - n5]
             IN  penta6_tri_faces(e) \o penta6_quad_faces(e)

\* the faces of the first contributor of the key k that have its vertices
OrderedTuples(k) == {f \in Range(FacesOfId(Contributors(k)[1])) : sort(f) = k}

\* C24 Orientation rule: when _write_faces returns, every key with two
\* contributors has been given a vertex tuple, and it is the tuple in
\* template order of the first element id of the key's list.
C24_Orientation ==
    (faces_pc = "done") =>
        \A k \in InteriorKeys :
            /\ k \in DOMAIN classified
            /\ classified[k].face_new \in OrderedTuples(k)

\* the kind of the element that the enumeration numbers x
KindOfId(x) ==
    IF x <= Len(tets) THEN "tets"
    ELSE IF x <= Len(tets) + Len(hexas) THEN "hexas"
    ELSE IF x <= Len(tets) + Len(hexas) + Len(penta5s) THEN "penta5s"
    ELSE "penta6s"

\* C26 Kind lookup by element id: for every triangular key with two
\* contributors that the last loop of _write_faces resolves, the kind index
\* computed for the first contributor is one of the four kinds and selects
\* the branch of the kind that this element belongs to; the lookup raises
\* no KeyError.
C26_KindLookup ==
    /\ faces_exc # "KeyError"
    /\ \A k \in DOMAIN classified :
        Len(tri_face_to_eids[k]) = 2 =>
            classified[k].branch = KindOfId(tri_face_to_eids[k][1])


-----------------------------------------------------------------------------
(* Claims about repeated calls of read_ugrid                               *)

\* C25 Decode is repeatable: every call of read_ugrid on a well-formed file,
\* the first on the object or a later one, returns normally and leaves the
\* arrays of the file.
C25_Repeatable ==
    (last_call.op = "read_ugrid" /\ WellFormed(ugrid_file)) =>
        /\ last_call.exc = "none"
        /\ mesh_from = "x"
        /\ self_arrays = assigned

-----------------------------------------------------------------------------
(* Claims about the check at the end of write_ugrid                        *)

\* the file out decodes, to its last byte, into the arrays of the object,
\* the nodes in the float width of its name
CompleteEncoding ==
    LET r == decode(f_ugrid, out_fmt, FALSE)
        as_written(x) ==
            IF Len(x) = out_fmt.nfloat THEN x
            ELSE IF Len(x) = 4 THEN float_to_double(x)
            ELSE double_to_float(x).m
    IN  /\ r.exc = "none"
        /\ r.pos = Len(f_ugrid)
        /\ r.arrays = [self_arrays EXCEPT
                         !.nodes = [i \in DOMAIN nodes |->
                                      [j \in 1..3 |-> as_written(nodes[i][j])]]]
        /\ Len(f_ugrid) = BytesBefore(LayoutIn(CountsOf(self_arrays), out_fmt), 10)

\* C27 Encode checks after writing: when write_ugrid has run on a mesh with
\* surface and volume elements and every block was packed, the file out
\* exists and holds the complete encoding of the mesh, whether write_ugrid
\* returned or raised the RuntimeError or AssertionError of
\* check_hanging_nodes; the check has passed only when the call returned.
\* When Struct.pack raised (patch ids that are not one per surface element)
\* the check was not reached.
C27_CheckAfterWrite ==
    (/\ last_call.op = "write_ugrid"
     /\ HasSurface(CountsOf(self_arrays))
     /\ HasVolume(CountsOf(self_arrays))) =>
        /\ out_exists
        /\ IF last_call.exc \in {"OverflowError", "struct.error"}
           THEN ~checked /\ Len(pids) # Len(tris) + Len(quads)
           ELSE /\ last_call.exc \in {"none", "RuntimeError", "AssertionError"}
                /\ CompleteEncoding
                /\ checked = (last_call.exc = "none")

\* write_ugrid raised AssertionError for a triangle with a node twice; the
\* file, of 8-byte floats, holds the nodes, the triangle and the tetrahedron
C27_Witness ==
    /\ last_call = [op |-> "write_ugrid", file |-> "out", exc |-> "AssertionError"]
    /\ tris = <<<<1, 1, 2>>>>
    /\ tets = <<<<1, 2, 3, 4>>>>
    /\ Len(nodes) = 4
    /\ out_tag = <<"l", "b", "8">>
    /\ out_exists
    /\ Len(f_ugrid) = 28 + 96 + 12 + 4 + 16
    /\ CompleteEncoding

=============================================================================
